---- MODULE Spec2Model ----
(***************************************************************************)
(* A model of mango: the rate-limited Fetcher, the crawl orchestrator      *)
(* (CommonSimpleCrawler), the savers (PageSaver, CBZSaver) with the        *)
(* filesystem they write to, and the progress bar.                         *)
(*                                                                         *)
(* The module holds several specifications over one set of variables:     *)
(*   FetchSpec  - Fetcher.Limit / Fetcher.Get under concurrent callers     *)
(*   CrawlSpec  - handleManga / handleChapter / handlePage / handleImage   *)
(*                with the saver and the filesystem, over several runs     *)
(*   TwoUrlsSpec - one run of the crawler next to a second handler of the  *)
(*                same chapter (two URL arguments)                         *)
(*   ProgressSpec - ProgressBar.run with the downloads and main's Stop     *)
(*   GuessSpec  - MangaReaderCrawler.handleChapter with guessImages, the   *)
(*                guessing of image names, the field shouldGuess an input  *)
(*   UpdateSpec - Metadata.Update on two maps                              *)
(*   CopySpec   - Copy(ctx, dst, src) next to a cancellation               *)
(*   GradientSpec - LinearGradient.At and blend on a fraction              *)
(*   WriterSpec - one sink of Save: Write, Close and the ticks it sends    *)
(*   PredictSpec - the arithmetic of guessImages on two calibration points *)
(*   HandleSpec - Handle on the URL of a manga, a chapter or a page        *)
(*   RuleSpec   - AndRule.Block and LastChapterRule.Block                  *)
(*   TransferSpec - Fetcher.Get and the caller that reads the Body         *)
(*   StopSpec   - ProgressSpec next to a second caller of Stop             *)
(*   LiveSpec, FairLiveSpec - the crawl with the semaphore, the limiter    *)
(*                and the progress bar; FairLiveSpec adds weak fairness    *)
(* A specification leaves the variables of the other parts unchanged.      *)
(***************************************************************************)
EXTENDS Integers, Sequences, FiniteSets, TLC

(***************************************************************************)
(* Bounds of the model.                                                    *)
(***************************************************************************)
NumGets == 2        \* concurrent Get calls
MaxConnections == 2 \* largest maxConnections given to NewFetcher / Limit
NumChapters == 2    \* chapters listed on the manga page
NumPages == 2       \* largest number of pages of a chapter
BodyLen == 1        \* chunks io.Copy moves for one image
NumTasks == 2       \* downloads that ask the progress bar for a task
MaxSofar == 2       \* writes of one download, each reported with TickTask
MaxSrcLen == 3      \* largest source given to Copy, in chunks of the copy buffer
MaxTotal == 6       \* largest total of a progress value whose colour is computed
MaxWrites == 3      \* Write calls on one sink of Save
MaxRules == 2       \* member rules of an AndRule
NumGuessPages == 3  \* largest page menu of a chapter handled with guessing

Hosts == {"a.net", "b.com"}  \* hosts a Get is sent to
LimitGlobs == {"a.net"}      \* host patterns given to Limit, each at most once
StatusCodes == {200, 404, 500}

Nil == "nil"
\* Go's nil *http.Response and nil error
NilResponse == [type |-> "nil"]
NilError == [type |-> "nil"]

VARIABLES
    \* ---- Fetcher ----
    domainRules,    \* Fetcher.domainRules: sequence of [domain, maxConnections]
    semaphore,      \* per rule: elements queued in the rule's semaphore channel
    rateLimiter,    \* per rule: ticks waiting in the time.Tick channel (0 or 1)
    ticksProduced,  \* per rule: ticks the limiter has put into its channel (history)
    ticksConsumed,  \* per rule: ticks received by a Get (history)
    requestsIssued, \* per rule: requests handed to the HTTP client (history)
    ctxDone,        \* the cancellation token of the context variant
    getPc,          \* per call: position inside Get
    getHost,        \* per call: u.Hostname()
    getRule,        \* per call: index of the governing rule, 0 if none
    getAcquired,    \* per call: sends to the semaphore done (history)
    getReleased,    \* per call: receives from the semaphore done (history)
    getTick,        \* per call: ticks received (history)
    getIssued,      \* per call: whether client.Do put the request on the wire
    getStatus,      \* per call: status code the server answered, 0 if none
    getRet,         \* per call: the (response, error) pair Get returned
    \* ---- the site and the command line ----
    mode,           \* "folder" (PageSaver) or "archive" (CBZSaver)
    numPages,       \* number of pages of a chapter of the site
    target,         \* the chapter whose URL the current run was given
    \* ---- the filesystem ----
    fs,             \* path -> [kind, ino] for every existing path
    files,          \* inode -> content (a sequence of blocks)
    published,      \* per chapter: the path OnChapterEnd made permanent (history)
    \* ---- the process ----
    exitStatus,     \* "running", or how the process ended: "0", "1", "killed"
    mainPc,         \* position of main / Handle / handleManga
    chPc,           \* per chapter: position of its handleChapter goroutine
    imgPc,          \* per page: position of its handlePage / handleImage goroutine
    imgIno,         \* per page: inode of the file the open writer refers to, 0 if none
    imgOff,         \* per page: offset of the open writer, in chunks
    zipIno,         \* per chapter: inode of the archive being written, 0 if none
    zipNext,        \* per chapter: files filepath.Walk has visited
    chapterEnded,   \* per chapter: OnChapterEnd was invoked in this run (history)
    finalized,      \* per page: OnPageEnd renamed its leaf in this run (history)
    requested,      \* the documents and images this run has asked the Fetcher for (history)
    \* ---- the progress bar ----
    runPc,          \* position of the goroutine ProgressBar.run
    nextPlace,      \* the local variable nextPlace of run
    tickBuf,        \* the progress value run has received and not yet printed
    stoppedClosed,  \* the channel stopped has been closed
    cursor,         \* visibility of the terminal cursor: "on" or "off"
    restores,       \* times the cursor-on sequence has been written (history)
    screen,         \* per column: what was last printed there
    taskPc,         \* per download: position in Save / ProgressWriter
    taskInfo,       \* per download: the progress value StartTask returned
    stopPc,         \* position of main with respect to the deferred Stop
    \* ---- MangaReaderCrawler.handleChapter with its guessing branch ----
    shouldGuess,    \* the field shouldGuess of the crawler
    statusVerb,     \* how Get formats a status error: "%s" of r.Status, "%d" of r.StatusCode
    pagesLen,       \* number of options in the page menu of the chapter
    selected,       \* the page the fetched document shows (thisPage[0])
    namePrefix,     \* what the image names of the chapter start with
    thisImageName,  \* base name of the image of the selected page, <<>> before GetPages
    lastImageName,  \* base name of the image handlePage returned to guessImages
    hcPc,           \* position of handleChapter
    pgPc,           \* per page: position of the goroutine that downloads it
    docFetches,     \* per page: GetHTML calls for its document (history)
    imgFetches,     \* per page: answers m.client.Get gave for an image of the page
    dropped,        \* the goroutine of thisPage[0] has dropped an error of handleImage
    guessStatus,    \* per page: status the server gave for the guessed image, 0 if none
    saved,          \* per page: images written through the saver (history)
    pageEnds,       \* per page: OnPageEnd notifications (history)
    calibrated,     \* guessImages has computed delta and start
    divisor,        \* lastPage - thisPage as guessImages divided by it
    delta,          \* the local delta of guessImages
    start,          \* the local start of guessImages
    guesses,        \* per page: base name of the guessed image, <<>> if none
    crawlerExit,    \* "running", or the exit status after log.Fatal or a panic
    \* ---- Metadata.Update ----
    updPc,          \* position of Metadata.Update
    updM,           \* the receiver m of Update
    updOther,       \* the argument other of Update
    updM0,          \* m at the call (history)
    updOther0,      \* other at the call (history)
    updTodo,        \* keys of other the range loop has not yet reached
    \* ---- Copy(ctx, dst, src) ----
    cpPc,           \* position of Copy: in the wrapped Read, in src.Read, in dst.Write
    cpDone,         \* ctx.Done() is closed
    srcLen,         \* chunks the source holds
    srcPos,         \* chunks read from the source
    cpBuf,          \* chunks in the buffer of io.Copy, read and not yet written
    dstLen,         \* chunks written to the destination
    cpErr,          \* the error Copy returned
    lateReads,      \* calls of src.Read made with the token already cancelled (history)
    \* ---- LinearGradient.At ----
    atPc,           \* position of LinearGradient.At
    lg,             \* the gradient, a sequence of colours
    tNum,           \* numerator of the fraction t given to At
    tDen,           \* denominator of the fraction t given to At
    atI,            \* the index sort.Search returned
    atColor,        \* the colour At returned, <<>> before
    \* ---- one ProgressWriter ----
    pwPc,           \* position of the download that holds the sink of Save
    pwTask,         \* the progress value StartTask returned, held by the callback
    pwProgress,     \* ProgressWriter.progress
    pwFile,         \* bytes the file of the sink has received
    pwSend,         \* the progress value TickTask is sending on tickCh
    pwTicks,        \* the progress values run has received for this sink, in order
    pwNextPlace,    \* nextPlace of run
    pwFailed,       \* the last Write to the file returned an error
    \* ---- the arithmetic of guessImages ----
    prThis,         \* page and image number of images[0]
    prLast,         \* page and image number of the image handlePage returned
    prPage,         \* a page left in the list
    prGiven,        \* what guessImages computes from (prThis, prLast)
    prSwapped,      \* what guessImages computes from (prLast, prThis)
    prDone,         \* which of the two computations are done
    \* ---- Handle of the three crawlers ----
    hSite,          \* the site whose crawler Handle belongs to
    hUrl,           \* path of the URL given to Handle, as its segments
    hTarget,        \* the chapter the URL names, 0 for the URL of a manga
    hHrefForm,      \* whether the listing links to chapters or to their first pages
    hSaverBlocks,   \* chapters the rule given to the crawler blocks
    hPc,            \* position of Handle
    hWhitelist,     \* Handle has put the whitelist rule in front of m.rule
    hChapterPath,   \* chapterPath, captured by the whitelist rule
    hMangaURL,      \* path of the URL given to handleManga
    hChPc,          \* per chapter of the listing: position of its handleChapter
    hGets,          \* paths GetHTML was called with
    \* ---- AndRule.Block ----
    rlRules,        \* the AndRule: its member rules in order
    rlMeta,         \* the Metadata given to Block, with what saver and whitelist answer for it
    rlI,            \* members the loop of AndRule.Block has passed
    rlRet,          \* what AndRule.Block returned
    \* ---- the caller of Get after Get returned ----
    bodyPc,         \* per call: where the caller of Get is with the Body of the response
    \* ---- a caller of ProgressBar.Stop ----
    clientPc,       \* a call of ProgressBar.Stop other than the deferred one of main
    \* ---- the crawl with the Fetcher and the progress bar ----
    lvPc,           \* per task (handleManga, handleChapter, page): where the handler is
    lvGet,          \* per task: where its call of Get is
    lvSofar         \* per page: chunks io.Copy has written

fetchVars == <<domainRules, semaphore, rateLimiter, ticksProduced, ticksConsumed,
               requestsIssued, ctxDone, getPc, getHost, getRule, getAcquired,
               getReleased, getTick, getIssued, getStatus, getRet>>

siteVars == <<mode, numPages>>
runVars == <<target>>
diskVars == <<fs, files, published>>
procVars == <<exitStatus, mainPc, chPc, imgPc, imgIno, imgOff, zipIno, zipNext,
              chapterEnded, finalized, requested>>
crawlVars == <<siteVars, runVars, diskVars, procVars>>
progressVars == <<runPc, nextPlace, tickBuf, stoppedClosed, cursor, restores, screen,
                  taskPc, taskInfo, stopPc>>

guessVars == <<shouldGuess, statusVerb, pagesLen, selected, namePrefix, thisImageName,
               lastImageName, hcPc, pgPc, docFetches, imgFetches, dropped, guessStatus, saved, pageEnds,
               calibrated, divisor, delta, start, guesses, crawlerExit>>
updateVars == <<updPc, updM, updOther, updM0, updOther0, updTodo>>
copyVars == <<cpPc, cpDone, srcLen, srcPos, cpBuf, dstLen, cpErr, lateReads>>
gradientVars == <<atPc, lg, tNum, tDen, atI, atColor>>
writerVars == <<pwPc, pwTask, pwProgress, pwFile, pwSend, pwTicks, pwNextPlace, pwFailed>>
predictVars == <<prThis, prLast, prPage, prGiven, prSwapped, prDone>>
handleVars == <<hSite, hUrl, hTarget, hHrefForm, hSaverBlocks, hPc, hWhitelist, hChapterPath, hMangaURL, hChPc, hGets>>
ruleVars == <<rlRules, rlMeta, rlI, rlRet>>
bodyVars == <<bodyPc>>
clientVars == <<clientPc>>
liveVars == <<lvPc, lvGet, lvSofar>>
\* the variables of the specifications of single handlers and functions
unitVars == <<guessVars, updateVars, copyVars, gradientVars, writerVars, predictVars, handleVars, ruleVars, bodyVars, clientVars, liveVars>>

vars == <<fetchVars, crawlVars, progressVars, unitVars>>

\* what the actions of each part leave alone
fetchFrame == <<crawlVars, progressVars, unitVars>>
crawlFrame == <<fetchVars, progressVars, unitVars>>
progressFrame == <<fetchVars, crawlVars, unitVars>>
programVars == <<fetchVars, crawlVars, progressVars>>
guessFrame == <<programVars, updateVars, copyVars, gradientVars, writerVars, predictVars, handleVars, ruleVars, bodyVars, clientVars, liveVars>>
updateFrame == <<programVars, guessVars, copyVars, gradientVars, writerVars, predictVars, handleVars, ruleVars, bodyVars, clientVars, liveVars>>
copyFrame == <<programVars, guessVars, updateVars, gradientVars, writerVars, predictVars, handleVars, ruleVars, bodyVars, clientVars, liveVars>>
gradientFrame == <<programVars, guessVars, updateVars, copyVars, writerVars, predictVars, handleVars, ruleVars, bodyVars, clientVars, liveVars>>
writerFrame == <<programVars, guessVars, updateVars, copyVars, gradientVars, predictVars, handleVars, ruleVars, bodyVars, clientVars, liveVars>>
predictFrame == <<programVars, guessVars, updateVars, copyVars, gradientVars, writerVars, handleVars, ruleVars, bodyVars, clientVars, liveVars>>
handleFrame == <<programVars, guessVars, updateVars, copyVars, gradientVars, writerVars, predictVars, ruleVars, bodyVars, clientVars, liveVars>>
ruleFrame == <<programVars, guessVars, updateVars, copyVars, gradientVars, writerVars, predictVars, handleVars, bodyVars, clientVars, liveVars>>
bodyFrame == <<programVars, guessVars, updateVars, copyVars, gradientVars, writerVars, predictVars, handleVars, ruleVars, clientVars, liveVars>>
clientFrame == <<programVars, guessVars, updateVars, copyVars, gradientVars, writerVars, predictVars, handleVars, ruleVars, bodyVars, liveVars>>
liveFrame == <<programVars, guessVars, updateVars, copyVars, gradientVars, writerVars, predictVars, handleVars, ruleVars, bodyVars, clientVars>>

Gets == 1..NumGets
Chapters == 1..NumChapters
Pages == 1..NumPages
Tasks == Chapters \X Pages
Modes == {"folder", "archive"}
Downloads == 1..NumTasks
Totals == {0, MaxSofar}
GuessPages == 1..NumGuessPages

(***************************************************************************)
(* Helpers.                                                                *)
(***************************************************************************)
Min(S) == CHOOSE x \in S : \A y \in S : x <= y
Max(S) == CHOOSE x \in S : \A y \in S : x >= y

\* A string is a sequence of tokens; concatenation is \o.
DigitChars == <<"0", "1", "2", "3", "4", "5", "6", "7", "8", "9">>

RECURSIVE Itoa(_)
\* strconv.Itoa / the %d verb: the decimal digits of n >= 0, most significant first
Itoa(n) ==
    IF n < 10 THEN <<DigitChars[n + 1]>>
    ELSE Itoa(n \div 10) \o <<DigitChars[(n % 10) + 1]>>

(***************************************************************************)
(* Fetcher                                                                 *)
(***************************************************************************)
\* glob.Glob.Match: "*" matches every host name, a literal pattern matches itself
Match(glob, host) == glob = "*" \/ glob = host

\* the loop of Get: the first rule, in slice order, whose glob matches
FirstMatch(rules, host) ==
    LET hits == {i \in 1..Len(rules) : Match(rules[i].domain, host)}
    IN  IF hits = {} THEN 0 ELSE Min(hits)

\* fmt.Errorf("GET %s: %d", u.String(), r.StatusCode): an error that is its text
StatusError(host, code) ==
    [type |-> "errorString", text |-> <<"GET ", host, ": ">> \o Itoa(code)]

\* the error client.Do returns for a transport failure or a cancelled context
UrlError(host, cause) ==
    [type |-> "url.Error", op |-> "Get", url |-> host, cause |-> cause]

NoResponse == [resp |-> NilResponse, err |-> NilError]

\* a send that never blocks, as on a channel without a capacity limit
SemaphoreAlwaysRoom(i) == TRUE

\* "r.semaphore <- empty{}" on a channel made with capacity maxConnections
SemaphoreHasRoom(i) == semaphore[i] < domainRules[i].maxConnections

\* NewFetcher(maxConnections, perSecond): Limit("*", ...) on an empty Fetcher
NewFetcher(maxConnections) ==
    /\ domainRules = <<[domain |-> "*", maxConnections |-> maxConnections]>>
    /\ semaphore = <<0>>
    /\ rateLimiter = <<0>>
    /\ ticksProduced = <<0>>
    /\ ticksConsumed = <<0>>
    /\ requestsIssued = <<0>>

\* no call of Get in progress
GetsIdle ==
    /\ ctxDone = FALSE
    /\ getPc = [c \in Gets |-> "idle"]
    /\ getHost = [c \in Gets |-> Nil]
    /\ getRule = [c \in Gets |-> 0]
    /\ getAcquired = [c \in Gets |-> 0]
    /\ getReleased = [c \in Gets |-> 0]
    /\ getTick = [c \in Gets |-> 0]
    /\ getIssued = [c \in Gets |-> FALSE]
    /\ getStatus = [c \in Gets |-> 0]
    /\ getRet = [c \in Gets |-> NoResponse]

EmptyFn == [x \in {} |-> x]

\* the crawler has not been started and the directory is empty
CrawlIdle ==
    /\ mode = "folder"
    /\ numPages = 1
    /\ target = 1
    /\ fs = EmptyFn
    /\ files = EmptyFn
    /\ published = [ch \in Chapters |-> <<>>]
    /\ exitStatus = "running"
    /\ mainPc = "handleManga"
    /\ chPc = [ch \in Chapters |-> "idle"]
    /\ imgPc = [t \in Tasks |-> "idle"]
    /\ imgIno = [t \in Tasks |-> 0]
    /\ imgOff = [t \in Tasks |-> 0]
    /\ zipIno = [ch \in Chapters |-> 0]
    /\ zipNext = [ch \in Chapters |-> 0]
    /\ chapterEnded = [ch \in Chapters |-> FALSE]
    /\ finalized = [t \in Tasks |-> FALSE]
    /\ requested = {}

\* progress.go's zero value of a progress
NoProgress == [place |-> 0, sofar |-> 0, total |-> 0]

\* nothing has been printed in the column
Blank == [blank |-> TRUE]

\* NewProgressBar: the channels are made and "go p.run()" has been executed;
\* no download has asked for a task
NewProgressBar ==
    /\ runPc = "start"
    /\ nextPlace = 1
    /\ tickBuf = NoProgress
    /\ stoppedClosed = FALSE
    /\ cursor = "on"
    /\ restores = 0
    /\ screen = [c \in 1..NumTasks |-> Blank]
    /\ taskPc = [t \in Downloads |-> "idle"]
    /\ taskInfo = [t \in Downloads |-> NoProgress]
    /\ stopPc = "crawl"

\* handleChapter of the MangaReaderCrawler has not been called
GuessIdle ==
    /\ shouldGuess = FALSE
    /\ statusVerb = "%d"
    /\ pagesLen = 1
    /\ selected = 1
    /\ namePrefix = <<>>
    /\ thisImageName = <<>>
    /\ lastImageName = <<>>
    /\ hcPc = "idle"
    /\ pgPc = [p \in GuessPages |-> "idle"]
    /\ docFetches = [p \in GuessPages |-> 0]
    /\ imgFetches = [p \in GuessPages |-> 0]
    /\ dropped = FALSE
    /\ guessStatus = [p \in GuessPages |-> 0]
    /\ saved = [p \in GuessPages |-> 0]
    /\ pageEnds = [p \in GuessPages |-> 0]
    /\ calibrated = FALSE
    /\ divisor = 0
    /\ delta = 0
    /\ start = 0
    /\ guesses = [p \in GuessPages |-> <<>>]
    /\ crawlerExit = "running"

\* Metadata.Update has not been called
UpdateIdle ==
    /\ updPc = "idle"
    /\ updM = EmptyFn
    /\ updOther = EmptyFn
    /\ updM0 = EmptyFn
    /\ updOther0 = EmptyFn
    /\ updTodo = {}

\* Copy has not been called
CopyIdle ==
    /\ cpPc = "idle"
    /\ cpDone = FALSE
    /\ srcLen = 0
    /\ srcPos = 0
    /\ cpBuf = 0
    /\ dstLen = 0
    /\ cpErr = NilError
    /\ lateReads = 0

\* LinearGradient.At has not been called
GradientIdle ==
    /\ atPc = "idle"
    /\ lg = <<>>
    /\ tNum = 0
    /\ tDen = 1
    /\ atI = 0
    /\ atColor = <<>>

\* no sink of Save is followed on its own
WriterIdle ==
    /\ pwPc = "idle"
    /\ pwTask = NoProgress
    /\ pwProgress = 0
    /\ pwFile = 0
    /\ pwSend = NoProgress
    /\ pwTicks = <<>>
    /\ pwNextPlace = 1
    /\ pwFailed = FALSE

\* the arithmetic of guessImages is not followed on its own
PredictIdle ==
    /\ prThis = [page |-> 1, id |-> 1]
    /\ prLast = [page |-> 1, id |-> 1]
    /\ prPage = 1
    /\ prGiven = [delta |-> 0, start |-> 0, id |-> 0]
    /\ prSwapped = [delta |-> 0, start |-> 0, id |-> 0]
    /\ prDone = {}

\* Handle has not been called on a crawler of its own
HandleIdle ==
    /\ hSite = "none"
    /\ hUrl = <<>>
    /\ hTarget = 0
    /\ hHrefForm = "chapter"
    /\ hSaverBlocks = {}
    /\ hPc = "idle"
    /\ hWhitelist = FALSE
    /\ hChapterPath = <<>>
    /\ hMangaURL = <<>>
    /\ hChPc = <<>>
    /\ hGets = {}

\* AndRule.Block is not followed on its own
RuleIdle ==
    /\ rlRules = <<>>
    /\ rlMeta = [chapterIndex |-> 1, chapters |-> 1, finalized |-> FALSE, requested |-> TRUE]
    /\ rlI = 0
    /\ rlRet = "idle"

\* no caller of Get is followed past the return of Get
BodyIdle ==
    bodyPc = [c \in Gets |-> "none"]

\* nobody but main calls Stop
ClientIdle ==
    clientPc = "idle"

\* no crawl is followed together with the Fetcher and the progress bar
LiveIdle ==
    /\ lvPc = <<>>
    /\ lvGet = <<>>
    /\ lvSofar = <<>>

\* no handler or function is under test on its own
UnitsIdle ==
    /\ GuessIdle
    /\ UpdateIdle
    /\ CopyIdle
    /\ GradientIdle
    /\ WriterIdle
    /\ PredictIdle
    /\ HandleIdle
    /\ RuleIdle
    /\ BodyIdle
    /\ ClientIdle
    /\ LiveIdle

FetchInit ==
    /\ \E k \in 1..MaxConnections : NewFetcher(k)
    /\ GetsIdle
    /\ CrawlIdle
    /\ NewProgressBar
    /\ UnitsIdle

\* Fetcher.Limit: append a rule with its own semaphore and limiter.  The
\* Fetcher is configured before it is handed (by value) to the crawlers.
Limit(domainGlob, maxConnections) ==
    /\ \A c \in Gets : getPc[c] = "idle"
    /\ \A i \in 1..Len(domainRules) : domainRules[i].domain # domainGlob
    /\ domainRules' = Append(domainRules,
                             [domain |-> domainGlob, maxConnections |-> maxConnections])
    /\ semaphore' = Append(semaphore, 0)
    /\ rateLimiter' = Append(rateLimiter, 0)
    /\ ticksProduced' = Append(ticksProduced, 0)
    /\ ticksConsumed' = Append(ticksConsumed, 0)
    /\ requestsIssued' = Append(requestsIssued, 0)
    /\ UNCHANGED <<ctxDone, getPc, getHost, getRule, getAcquired, getReleased,
                   getTick, getIssued, getStatus, getRet>>
    /\ UNCHANGED fetchFrame

\* the runtime timer behind time.Tick: a channel of capacity 1; a tick that
\* finds the channel full is dropped and changes nothing
LimiterTick(i) ==
    /\ rateLimiter[i] = 0
    /\ ticksProduced' = [ticksProduced EXCEPT ![i] = @ + 1]
    /\ rateLimiter' = [rateLimiter EXCEPT ![i] = 1]
    /\ UNCHANGED <<domainRules, semaphore, ticksConsumed, requestsIssued, ctxDone,
                   getPc, getHost, getRule, getAcquired, getReleased, getTick,
                   getIssued, getStatus, getRet>>
    /\ UNCHANGED fetchFrame

\* cancel() of the context handed to Get
Cancel ==
    /\ ~ctxDone
    /\ \E c \in Gets : getPc[c] # "idle"
    /\ ctxDone' = TRUE
    /\ UNCHANGED <<domainRules, semaphore, rateLimiter, ticksProduced, ticksConsumed,
                   requestsIssued, getPc, getHost, getRule, getAcquired, getReleased,
                   getTick, getIssued, getStatus, getRet>>
    /\ UNCHANGED fetchFrame

\* Get, entry: range over the rules up to the first match
GetEnter(c, host) ==
    /\ getPc[c] = "idle"
    /\ \A d \in Gets : d < c => getPc[d] # "idle"   \* calls are numbered as they start
    /\ getHost' = [getHost EXCEPT ![c] = host]
    /\ getRule' = [getRule EXCEPT ![c] = FirstMatch(domainRules, host)]
    /\ getPc' = [getPc EXCEPT ![c] =
                    IF FirstMatch(domainRules, host) = 0 THEN "do" ELSE "semaphore"]
    /\ UNCHANGED <<domainRules, semaphore, rateLimiter, ticksProduced, ticksConsumed,
                   requestsIssued, ctxDone, getAcquired, getReleased, getTick,
                   getIssued, getStatus, getRet>>
    /\ UNCHANGED fetchFrame

\* Get: "r.semaphore <- empty{}", then the release is deferred
GetAcquire(c) ==
    /\ getPc[c] = "semaphore"
    /\ SemaphoreHasRoom(getRule[c])
    /\ semaphore' = [semaphore EXCEPT ![getRule[c]] = @ + 1]
    /\ getAcquired' = [getAcquired EXCEPT ![c] = @ + 1]
    /\ getPc' = [getPc EXCEPT ![c] = "rateLimiter"]
    /\ UNCHANGED <<domainRules, rateLimiter, ticksProduced, ticksConsumed,
                   requestsIssued, ctxDone, getHost, getRule, getReleased, getTick,
                   getIssued, getStatus, getRet>>
    /\ UNCHANGED fetchFrame

\* Get going on to the request without receiving from the limiter
GetSkipTick(c) ==
    /\ getPc[c] = "rateLimiter"
    /\ getPc' = [getPc EXCEPT ![c] = "do"]
    /\ UNCHANGED <<domainRules, semaphore, rateLimiter, ticksProduced, ticksConsumed,
                   requestsIssued, ctxDone, getHost, getRule, getAcquired,
                   getReleased, getTick, getIssued, getStatus, getRet>>
    /\ UNCHANGED fetchFrame

\* Get: "<-r.rateLimiter"
GetAwaitTick(c) ==
    /\ getPc[c] = "rateLimiter"
    /\ rateLimiter[getRule[c]] > 0
    /\ rateLimiter' = [rateLimiter EXCEPT ![getRule[c]] = @ - 1]
    /\ ticksConsumed' = [ticksConsumed EXCEPT ![getRule[c]] = @ + 1]
    /\ getTick' = [getTick EXCEPT ![c] = @ + 1]
    /\ getPc' = [getPc EXCEPT ![c] = "do"]
    /\ UNCHANGED <<domainRules, semaphore, ticksProduced, requestsIssued, ctxDone,
                   getHost, getRule, getAcquired, getReleased, getIssued,
                   getStatus, getRet>>
    /\ UNCHANGED fetchFrame

\* Get: what it hands back for the response (r, err) of the client
GetResult(host, status) ==
    IF status # 200
    THEN [resp |-> NilResponse, err |-> StatusError(host, status)]
    ELSE [resp |-> [type |-> "http.Response", status |-> status, url |-> host],
          err |-> NilError]

\* a release written after the request instead of deferred: skipped when
\* Get returns early with an error
ReleaseOnSuccessOnly(c) ==
    IF getRule[c] # 0 /\ getRet'[c].err = NilError
    THEN /\ semaphore' = [semaphore EXCEPT ![getRule[c]] = @ - 1]
         /\ getReleased' = [getReleased EXCEPT ![c] = @ + 1]
    ELSE UNCHANGED <<semaphore, getReleased>>

\* a release that waits for the caller to close the Body
ReleaseOnBodyClose(c) == UNCHANGED <<semaphore, getReleased>>

\* Get returns: the deferred "<-r.semaphore" runs when a rule matched
ReleaseSemaphore(c) ==
    IF getRule[c] # 0
    THEN /\ semaphore' = [semaphore EXCEPT ![getRule[c]] = @ - 1]
         /\ getReleased' = [getReleased EXCEPT ![c] = @ + 1]
    ELSE UNCHANGED <<semaphore, getReleased>>

\* Get: client.Get / client.Do(req.WithContext(ctx)) puts the request on the
\* wire; a context that is already done makes Do fail before anything is
\* sent, and Get returns that error
GetDo(c) ==
    /\ getPc[c] = "do"
    /\ IF ctxDone
       THEN /\ getRet' = [getRet EXCEPT ![c] =
                            [resp |-> NilResponse, err |-> UrlError(getHost[c], "context canceled")]]
            /\ getPc' = [getPc EXCEPT ![c] = "returned"]
            /\ ReleaseSemaphore(c)
            /\ UNCHANGED <<requestsIssued, getIssued>>
       ELSE /\ getIssued' = [getIssued EXCEPT ![c] = TRUE]
            /\ requestsIssued' = IF getRule[c] = 0 THEN requestsIssued
                                 ELSE [requestsIssued EXCEPT ![getRule[c]] = @ + 1]
            /\ getPc' = [getPc EXCEPT ![c] = "inflight"]
            /\ UNCHANGED <<getRet, semaphore, getReleased>>
    /\ UNCHANGED <<domainRules, rateLimiter, ticksProduced, ticksConsumed,
                   ctxDone, getHost, getRule, getAcquired, getTick,
                   getStatus>>
    /\ UNCHANGED fetchFrame

\* the server answers with a status code, and Get returns
GetAnswered(c, status) ==
    /\ getPc[c] = "inflight"
    /\ getStatus' = [getStatus EXCEPT ![c] = status]
    /\ getRet' = [getRet EXCEPT ![c] = GetResult(getHost[c], status)]
    /\ getPc' = [getPc EXCEPT ![c] = "returned"]
    /\ ReleaseSemaphore(c)
    /\ UNCHANGED <<domainRules, rateLimiter, ticksProduced, ticksConsumed,
                   requestsIssued, ctxDone, getHost, getRule, getAcquired,
                   getTick, getIssued>>
    /\ UNCHANGED fetchFrame

\* the transfer fails (a transport error, or the context is cancelled
\* mid-flight), and Get returns the client's error
GetFailed(c) ==
    /\ getPc[c] = "inflight"
    /\ getRet' = [getRet EXCEPT ![c] =
                    [resp |-> NilResponse,
                     err |-> UrlError(getHost[c],
                                      IF ctxDone THEN "context canceled" ELSE "transport")]]
    /\ getPc' = [getPc EXCEPT ![c] = "returned"]
    /\ ReleaseSemaphore(c)
    /\ UNCHANGED <<domainRules, rateLimiter, ticksProduced, ticksConsumed,
                   requestsIssued, ctxDone, getHost, getRule, getAcquired,
                   getTick, getIssued, getStatus>>
    /\ UNCHANGED fetchFrame

FetchNext ==
    \/ \E g \in LimitGlobs, k \in 1..MaxConnections : Limit(g, k)
    \/ \E i \in 1..Len(domainRules) : LimiterTick(i)
    \/ Cancel
    \/ \E c \in Gets, h \in Hosts : GetEnter(c, h)
    \/ \E c \in Gets : GetAcquire(c)
    \/ \E c \in Gets : GetAwaitTick(c)
    \/ \E c \in Gets : GetDo(c)
    \/ \E c \in Gets, s \in StatusCodes : GetAnswered(c, s)
    \/ \E c \in Gets : GetFailed(c)

FetchSpec == FetchInit /\ [][FetchNext]_vars

(***************************************************************************)
(* Metadata and the names the savers build from it                         *)
(***************************************************************************)
RECURSIVE PadZero(_, _)
\* the "0" flag with a "*" width: zeros in front until the width is reached
PadZero(width, s) == IF Len(s) >= width THEN s ELSE PadZero(width, <<"0">> \o s)

\* fmt's %0*d of info[key]; a key the map does not hold is a nil interface
FormatInt(width, info, key) ==
    IF key \in DOMAIN info THEN PadZero(width, Itoa(info[key])) ELSE <<"%!d(<nil>)">>

\* fmt's %s of info[key]
FormatString(info, key) ==
    IF key \in DOMAIN info THEN <<info[key]>> ELSE <<"%!s(<nil>)">>

\* Metadata.Update: the entries of other are written over those of m
Update(m, other) ==
    [k \in DOMAIN m \cup DOMAIN other |-> IF k \in DOMAIN other THEN other[k] ELSE m[k]]

\* the number in the text of the i-th listing; the site numbers chapters from 1
ChapterNum(i) == i

\* MangaReaderScraper.GetChapters: the info of the i-th chapter Resource
\* (the entries no saver or rule reads are left out)
GetChapters(i) ==
    [chapterIndex |-> i, chapter |-> ChapterNum(i), manga |-> "manga",
     chapters |-> NumChapters]

\* MangaReaderScraper.GetPages: the info built for the p-th option
GetPages(p) == [pages |-> numPages, pageIndex |-> p]

\* MangaReaderScraper.GetImage: the info of an image Resource
GetImage == [imageExtension |-> "jpg"]

\* handleChapter: thisPage[0].info after GetPages and Update(chapter.info)
ThisPageInfo(ch) == Update(Update(GetImage, GetPages(1)), GetChapters(ch))

\* handlePage: img.info after Update(page.info), page p being one of otherPages
OtherPageInfo(ch, p) == Update(GetImage, Update(GetPages(p), GetChapters(ch)))

\* the info handleImage and OnPageEnd are given for the page of task t
ImageInfo(t) == IF t[2] = 1 THEN ThisPageInfo(t[1]) ELSE OtherPageInfo(t[1], t[2])

\* PageSaver.name
PageSaver_name(info) ==
    [dirname |->
        IF "chapters" \in DOMAIN info
        THEN FormatString(info, "manga") \o <<"/">>
                \o FormatInt(Len(Itoa(info["chapters"])), info, "chapter")
        ELSE <<>>,
     basename |->
        IF "pages" \in DOMAIN info
        THEN FormatInt(Len(Itoa(info["pages"])), info, "page") \o <<".">>
                \o FormatString(info, "imageExtension")
        ELSE <<>>]

\* CBZSaver.name
CBZSaver_name(info) ==
    [archivename |->
        IF "chapters" \in DOMAIN info
        THEN FormatString(info, "manga") \o <<"/">>
                \o FormatInt(Len(Itoa(info["chapters"])), info, "chapter") \o <<".cbz">>
        ELSE <<>>,
     imagename |->
        IF "pages" \in DOMAIN info
        THEN FormatInt(Len(Itoa(info["pages"])), info, "page") \o <<".">>
                \o FormatString(info, "imageExtension")
        ELSE <<>>]

\* filepath.Join of two elements: an empty element is ignored
Join(dir, base) ==
    IF base = <<>> THEN dir ELSE IF dir = <<>> THEN base ELSE dir \o <<"/">> \o base

\* dirname / archivename: the permanent container of the chapter
ContainerName(info) ==
    IF mode = "folder" THEN PageSaver_name(info).dirname
    ELSE CBZSaver_name(info).archivename

\* basename / imagename
LeafName(info) ==
    IF mode = "folder" THEN PageSaver_name(info).basename
    ELSE CBZSaver_name(info).imagename

\* a saver that works under the permanent name of the container
PermanentContainer(info) == ContainerName(info)

\* tmpdirname / tmparchivename
TmpContainer(info) == ContainerName(info) \o <<".part">>

\* tmpname in Save and OnPageEnd
TmpLeaf(info) == Join(TmpContainer(info), LeafName(info) \o <<".part">>)

\* the name OnPageEnd renames tmpname to
FinalLeaf(info) == Join(TmpContainer(info), LeafName(info))

(***************************************************************************)
(* The filesystem                                                          *)
(***************************************************************************)
DirNode == [kind |-> "dir", ino |-> 0]

\* the directory part of a path; <<>> is the working directory
Parent(path) ==
    LET slashes == {i \in 1..Len(path) : path[i] = "/"}
    IN  IF slashes = {} THEN <<>> ELSE SubSeq(path, 1, Max(slashes) - 1)

\* helpers.go isFile: the path exists and is not a directory
isFile(f, path) == path \in DOMAIN f /\ f[path].kind # "dir"

\* helpers.go isDir
isDir(f, path) == path \in DOMAIN f /\ f[path].kind = "dir"

\* q is inside the directory dir
IsUnder(dir, q) ==
    /\ Len(q) > Len(dir) + 1
    /\ SubSeq(q, 1, Len(dir)) = dir
    /\ q[Len(dir) + 1] = "/"

RECURSIVE MkdirAll(_, _)
\* os.MkdirAll: make the missing directories of path, parents first; stops
\* at a parent that is a file
MkdirAll(f, path) ==
    IF path = <<>> THEN f
    ELSE LET g == MkdirAll(f, Parent(path))
         IN  IF path \in DOMAIN g THEN g
             ELSE IF Parent(path) = <<>> \/ isDir(g, Parent(path))
                  THEN [q \in DOMAIN g \cup {path} |-> IF q = path THEN DirNode ELSE g[q]]
                  ELSE g

\* inodes a path or an open writer refers to
UsedInos ==
    DOMAIN files \cup ({imgIno[t] : t \in Tasks} \ {0})
                 \cup ({zipIno[ch] : ch \in Chapters} \ {0})

FreshIno == Min((1..(Cardinality(UsedInos) + 1)) \ UsedInos)

\* os.Create can open path: it is not a directory and its directory exists
CanCreate(f, path) ==
    /\ path # <<>>
    /\ ~isDir(f, path)
    /\ Parent(path) = <<>> \/ isDir(f, Parent(path))

\* os.Create: the file at path, made if missing
Create(f, path) ==
    IF path \in DOMAIN f THEN f
    ELSE [q \in DOMAIN f \cup {path} |->
            IF q = path THEN [kind |-> "file", ino |-> FreshIno] ELSE f[q]]

\* os.Create opens with O_TRUNC: the file is empty afterwards
Truncate(fl, ino) == [i \in DOMAIN fl \cup {ino} |-> IF i = ino THEN <<>> ELSE fl[i]]

\* the inodes of fl that a path of f still names
Collect(fl, f) ==
    [i \in {f[q].ino : q \in {q \in DOMAIN f : f[q].kind = "file"}} |-> fl[i]]

\* os.Rename of a file: new names the inode old named; fails on a directory
Rename(f, old, new) ==
    IF isDir(f, new) THEN f
    ELSE [q \in (DOMAIN f \ {old}) \cup {new} |-> IF q = new THEN f[old] ELSE f[q]]

\* os.Rename of a directory: fails when new exists and is not an empty directory
CanRenameDir(f, old, new) ==
    \/ new \notin DOMAIN f
    \/ isDir(f, new) /\ ~\E q \in DOMAIN f : IsUnder(new, q)

RenameDir(f, old, new) ==
    LET moved == {q \in DOMAIN f : q = old \/ IsUnder(old, q)}
        To(q) == new \o SubSeq(q, Len(old) + 1, Len(q))
        From(r) == CHOOSE q \in moved : To(q) = r
    IN  [r \in ((DOMAIN f \ moved) \ {new}) \cup {To(q) : q \in moved} |->
            IF r \in {To(q) : q \in moved} THEN f[From(r)] ELSE f[r]]

Hole == [chapter |-> 0, page |-> 0, part |-> 0]

\* the k-th chunk of the image of the page of task t
Chunk(t, k) == [chapter |-> t[1], page |-> t[2], part |-> k]

\* the whole image of page p of chapter ch
Body(ch, p) == [k \in 1..BodyLen |-> Chunk(<<ch, p>>, k)]

\* a write of one block at offset off (File.Write keeps its own offset)
WriteAt(content, off, blk) ==
    IF off < Len(content) THEN [content EXCEPT ![off + 1] = blk]
    ELSE content \o [i \in 1..(off - Len(content)) |-> Hole] \o <<blk>>

\* a write through an open file; an unlinked inode is not kept
Write(fl, ino, off, blk) ==
    IF ino \in DOMAIN fl THEN [fl EXCEPT ![ino] = WriteAt(fl[ino], off, blk)] ELSE fl

\* the first byte of a token, for the lexical order of filepath.Walk
TokenRank(tok) ==
    IF tok \in {"%!d(<nil>)", "%!s(<nil>)"} THEN 37
    ELSE IF tok \in {".", ".part", ".cbz"} THEN 46
    ELSE IF tok = "/" THEN 47
    ELSE IF tok = "jpg" THEN 106
    ELSE IF tok = "manga" THEN 109
    ELSE 47 + (CHOOSE d \in 1..10 : DigitChars[d] = tok)

RECURSIVE LexLess(_, _)
LexLess(a, b) ==
    IF a = <<>> THEN b # <<>>
    ELSE IF b = <<>> THEN FALSE
    ELSE IF Head(a) = Head(b) THEN LexLess(Tail(a), Tail(b))
    ELSE TokenRank(Head(a)) < TokenRank(Head(b))

RECURSIVE SortPaths(_)
SortPaths(S) ==
    IF S = {} THEN <<>>
    ELSE LET m == CHOOSE x \in S : \A y \in S \ {x} : LexLess(x, y)
         IN  <<m>> \o SortPaths(S \ {m})

\* filepath.Walk(root): the files below root in lexical order (the savers
\* make no directory inside a container)
WalkFiles(f, root) ==
    SortPaths({q \in DOMAIN f : IsUnder(root, q) /\ f[q].kind = "file"})

\* the end of a zip file, written by archive.Close
CentralDirectory == [central |-> TRUE]

(***************************************************************************)
(* Rules                                                                   *)
(***************************************************************************)
\* PageSaver.Block
PageSaver_Block(info) == isDir(fs, PageSaver_name(info).dirname)

\* CBZSaver.Block
CBZSaver_Block(info) == isFile(fs, CBZSaver_name(info).archivename)

\* a rule that also takes the temporary container for the finished one
BlockOnPartToo(info) ==
    \/ ContainerName(info) \in DOMAIN fs
    \/ TmpContainer(info) \in DOMAIN fs

\* the saver as main's rule
SaverBlock(info) ==
    IF mode = "folder" THEN PageSaver_Block(info) ELSE CBZSaver_Block(info)

\* Handle, chapter url: block every chapter but the requested one
whitelistRule(ch) == ch # target

\* a rule that lets every finished chapter through again
WhitelistOnly(ch) == whitelistRule(ch)

\* AndRule{whitelistRule, m.rule}.Block: blocked as soon as one rule blocks
AndRule_Block(ch) == whitelistRule(ch) \/ SaverBlock(GetChapters(ch))

(***************************************************************************)
(* The crawler process                                                     *)
(***************************************************************************)
Alive == exitStatus = "running"

\* the process ends (os.Exit, return of main, or a kill): its goroutines and
\* open files are gone, the filesystem stays
Exit(code) ==
    /\ exitStatus' = code
    /\ mainPc' = "exited"
    /\ chPc' = [ch \in Chapters |-> "idle"]
    /\ imgPc' = [t \in Tasks |-> "idle"]
    /\ imgIno' = [t \in Tasks |-> 0]
    /\ imgOff' = [t \in Tasks |-> 0]
    /\ zipIno' = [ch \in Chapters |-> 0]
    /\ zipNext' = [ch \in Chapters |-> 0]
    /\ chapterEnded' = [ch \in Chapters |-> FALSE]
    /\ finalized' = [t \in Tasks |-> FALSE]
    /\ requested' = {}

CrawlInit ==
    /\ NewFetcher(MaxConnections)
    /\ GetsIdle
    /\ NewProgressBar
    /\ UnitsIdle
    /\ mode \in Modes
    /\ numPages \in Pages
    /\ target \in Chapters
    /\ fs = EmptyFn
    /\ files = EmptyFn
    /\ published = [ch \in Chapters |-> <<>>]
    /\ exitStatus = "running"
    /\ mainPc = "handleManga"
    /\ chPc = [ch \in Chapters |-> "idle"]
    /\ imgPc = [t \in Tasks |-> "idle"]
    /\ imgIno = [t \in Tasks |-> 0]
    /\ imgOff = [t \in Tasks |-> 0]
    /\ zipIno = [ch \in Chapters |-> 0]
    /\ zipNext = [ch \in Chapters |-> 0]
    /\ chapterEnded = [ch \in Chapters |-> FALSE]
    /\ finalized = [t \in Tasks |-> FALSE]
    /\ requested = {}

\* what a run asks the Fetcher for: the manga page, the page of a chapter,
\* the page of a page of a chapter, an image
Resource(kind, ch, p) == [kind |-> kind, chapter |-> ch, page |-> p]
MangaDoc == Resource("manga", 0, 0)
ChapterDoc(ch) == Resource("chapter", ch, 0)
PageDoc(t) == Resource("page", t[1], t[2])
Image(t) == Resource("image", t[1], t[2])

\* handleManga: GetHTML of the manga page, then one goroutine per chapter.
\* The goroutine of a chapter the whitelist rule blocks returns without
\* reading or writing anything shared; it is taken to have returned at once.
handleManga(ok) ==
    /\ Alive /\ mainPc = "handleManga"
    /\ IF ok
       THEN /\ mainPc' = "wait"
            /\ chPc' = [ch \in Chapters |-> IF whitelistRule(ch) THEN "skipped" ELSE "block"]
            /\ requested' = requested \cup {MangaDoc}
            /\ UNCHANGED <<exitStatus, imgPc, imgIno, imgOff, zipIno, zipNext,
                           chapterEnded, finalized>>
       ELSE Exit("1")
    /\ UNCHANGED <<siteVars, runVars, diskVars>>
    /\ UNCHANGED crawlFrame

\* a handleChapter that goes on to the chapter page without asking the rule
handleChapter_NoBlock(ch) ==
    /\ Alive /\ chPc[ch] = "block"
    /\ chPc' = [chPc EXCEPT ![ch] = "fetch"]
    /\ UNCHANGED <<requested, exitStatus, mainPc, imgPc, imgIno, imgOff, zipIno, zipNext,
                   chapterEnded, finalized, siteVars, runVars, diskVars>>
    /\ UNCHANGED crawlFrame

\* handleChapter: "if m.rule.Block(chapter) { return }"
handleChapter_Block(ch) ==
    /\ Alive /\ chPc[ch] = "block"
    /\ chPc' = [chPc EXCEPT ![ch] = IF AndRule_Block(ch) THEN "skipped" ELSE "fetch"]
    /\ UNCHANGED <<requested, exitStatus, mainPc, imgPc, imgIno, imgOff, zipIno, zipNext,
                   chapterEnded, finalized, siteVars, runVars, diskVars>>
    /\ UNCHANGED crawlFrame

\* handleChapter: GetHTML of the chapter page, GetPages, Update, and the
\* goroutines: handleImage for thisPage[0], handlePage for each of otherPages
handleChapter_GetHTML(ch, ok) ==
    /\ Alive /\ chPc[ch] = "fetch"
    /\ IF ok
       THEN /\ chPc' = [chPc EXCEPT ![ch] = "wait"]
            /\ imgPc' = [t \in Tasks |->
                            IF t[1] # ch \/ t[2] > numPages THEN imgPc[t]
                            ELSE IF t[2] = 1 THEN "get" ELSE "doc"]
            /\ requested' = requested \cup {ChapterDoc(ch)}
            /\ UNCHANGED <<exitStatus, mainPc, imgIno, imgOff, zipIno, zipNext,
                           chapterEnded, finalized>>
       ELSE Exit("1")
    /\ UNCHANGED <<siteVars, runVars, diskVars>>
    /\ UNCHANGED crawlFrame

\* handlePage: GetHTML of the page, GetImage, Update
handlePage_GetHTML(t, ok) ==
    /\ Alive /\ imgPc[t] = "doc"
    /\ IF ok
       THEN /\ imgPc' = [imgPc EXCEPT ![t] = "get"]
            /\ requested' = requested \cup {PageDoc(t)}
            /\ UNCHANGED <<exitStatus, mainPc, chPc, imgIno, imgOff, zipIno, zipNext,
                           chapterEnded, finalized>>
       ELSE Exit("1")
    /\ UNCHANGED <<siteVars, runVars, diskVars>>
    /\ UNCHANGED crawlFrame

\* handleImage returns an error, its deferred Close calls done: the goroutine
\* of handleChapter drops the error, handlePage calls log.Fatal
handleImage_Error(t, fetched) ==
    IF t[2] = 1
    THEN /\ imgPc' = [imgPc EXCEPT ![t] = "failed"]
         /\ imgIno' = [imgIno EXCEPT ![t] = 0]
         /\ imgOff' = [imgOff EXCEPT ![t] = 0]
         /\ requested' = requested \cup fetched
         /\ UNCHANGED <<exitStatus, mainPc, chPc, zipIno, zipNext, chapterEnded,
                        finalized>>
    ELSE Exit("1")

\* handleImage: m.client.Get(img.url)
handleImage_Get(t, ok) ==
    /\ Alive /\ imgPc[t] = "get"
    /\ IF ok
       THEN /\ imgPc' = [imgPc EXCEPT ![t] = "save"]
            /\ requested' = requested \cup {Image(t)}
            /\ UNCHANGED <<exitStatus, mainPc, chPc, imgIno, imgOff, zipIno, zipNext,
                           chapterEnded, finalized>>
       ELSE handleImage_Error(t, {Image(t)})
    /\ UNCHANGED <<siteVars, runVars, diskVars>>
    /\ UNCHANGED crawlFrame

\* handleImage: m.saver.Save, that is MkdirAll of the temporary container and
\* os.Create of the temporary leaf (ok: the system lets the file be opened)
Save(t, ok) ==
    /\ Alive /\ imgPc[t] = "save"
    /\ LET info == ImageInfo(t)
           g == MkdirAll(fs, TmpContainer(info))
           tmpname == TmpLeaf(info)
           h == Create(g, tmpname)
       IN  IF ok /\ CanCreate(g, tmpname)
           THEN /\ fs' = h
                /\ files' = Truncate(files, h[tmpname].ino)
                /\ imgIno' = [imgIno EXCEPT ![t] = h[tmpname].ino]
                /\ imgOff' = [imgOff EXCEPT ![t] = 0]
                /\ imgPc' = [imgPc EXCEPT ![t] = "copy"]
                /\ UNCHANGED <<requested, exitStatus, mainPc, chPc, zipIno, zipNext,
                               chapterEnded, finalized>>
           ELSE /\ fs' = g
                /\ files' = files
                /\ handleImage_Error(t, {})
    /\ UNCHANGED <<siteVars, runVars, published>>
    /\ UNCHANGED crawlFrame

\* handleImage: io.Copy moves the next chunk of the body, or fails
handleImage_Copy(t, ok) ==
    /\ Alive /\ imgPc[t] = "copy" /\ imgOff[t] < BodyLen
    /\ IF ok
       THEN /\ files' = Write(files, imgIno[t], imgOff[t], Chunk(t, imgOff[t] + 1))
            /\ imgOff' = [imgOff EXCEPT ![t] = @ + 1]
            /\ UNCHANGED <<requested, exitStatus, mainPc, chPc, imgPc, imgIno, zipIno, zipNext,
                           chapterEnded, finalized>>
       ELSE /\ files' = files
            /\ handleImage_Error(t, {})
    /\ UNCHANGED <<siteVars, runVars, fs, published>>
    /\ UNCHANGED crawlFrame

\* handleImage: the body is at its end; out.Close() and "return nil"
handleImage_Return(t) ==
    /\ Alive /\ imgPc[t] = "copy" /\ imgOff[t] = BodyLen
    /\ imgIno' = [imgIno EXCEPT ![t] = 0]
    /\ imgOff' = [imgOff EXCEPT ![t] = 0]
    /\ imgPc' = [imgPc EXCEPT ![t] = IF t[2] = 1 THEN "done" ELSE "pageEnd"]
    /\ UNCHANGED <<requested, exitStatus, mainPc, chPc, zipIno, zipNext, chapterEnded, finalized,
                   siteVars, runVars, diskVars>>
    /\ UNCHANGED crawlFrame

\* PageSaver.OnPageEnd / CBZSaver.OnPageEnd for the page of task t
OnPageEnd(t) ==
    LET info == ImageInfo(t)
        tmpname == TmpLeaf(info)
    IN  /\ fs' = IF isFile(fs, tmpname) THEN Rename(fs, tmpname, FinalLeaf(info)) ELSE fs
        /\ files' = Collect(files, fs')
        /\ finalized' = [finalized EXCEPT ![t] = isFile(fs, tmpname)]

\* handlePage: the deferred m.obs.OnPageEnd(img.info) after handleImage
\* returned nil
handlePage_OnPageEnd(t) ==
    /\ Alive /\ imgPc[t] = "pageEnd"
    /\ OnPageEnd(t)
    /\ imgPc' = [imgPc EXCEPT ![t] = "done"]
    /\ UNCHANGED <<requested, exitStatus, mainPc, chPc, imgIno, imgOff, zipIno, zipNext,
                   chapterEnded, siteVars, runVars, published>>
    /\ UNCHANGED crawlFrame

\* a handleChapter that emits the notifications without wg.Wait()
handleChapter_NoWait(ch) ==
    /\ Alive /\ chPc[ch] = "wait"
    /\ OnPageEnd(<<ch, 1>>)
    /\ chPc' = [chPc EXCEPT ![ch] = "chapterEnd"]
    /\ UNCHANGED <<requested, exitStatus, mainPc, imgPc, imgIno, imgOff, zipIno, zipNext,
                   chapterEnded, siteVars, runVars, published>>
    /\ UNCHANGED crawlFrame

\* handleChapter: wg.Wait() returns, then m.obs.OnPageEnd(thisPage[0].info)
handleChapter_OnPageEnd(ch) ==
    /\ Alive /\ chPc[ch] = "wait"
    /\ \A p \in 1..numPages : imgPc[<<ch, p>>] \in {"done", "failed"}
    /\ OnPageEnd(<<ch, 1>>)
    /\ chPc' = [chPc EXCEPT ![ch] = "chapterEnd"]
    /\ UNCHANGED <<requested, exitStatus, mainPc, imgPc, imgIno, imgOff, zipIno, zipNext,
                   chapterEnded, siteVars, runVars, published>>
    /\ UNCHANGED crawlFrame

\* handleChapter: m.obs.OnChapterEnd(thisPage[0].info) with the PageSaver
PageSaver_OnChapterEnd(ch) ==
    /\ Alive /\ chPc[ch] = "chapterEnd" /\ mode = "folder"
    /\ LET info == ThisPageInfo(ch)
           dirname == ContainerName(info)
           tmpdirname == TmpContainer(info)
           renames == isDir(fs, tmpdirname) /\ CanRenameDir(fs, tmpdirname, dirname)
       IN  /\ fs' = IF renames THEN RenameDir(fs, tmpdirname, dirname) ELSE fs
           /\ published' = [published EXCEPT ![ch] = IF renames THEN dirname ELSE @]
    /\ chapterEnded' = [chapterEnded EXCEPT ![ch] = TRUE]
    /\ chPc' = [chPc EXCEPT ![ch] = "done"]
    /\ UNCHANGED <<requested, exitStatus, mainPc, imgPc, imgIno, imgOff, zipIno, zipNext,
                   finalized, siteVars, runVars, files>>
    /\ UNCHANGED crawlFrame

\* handleChapter: m.obs.OnChapterEnd(thisPage[0].info) with the CBZSaver, up
\* to zip.NewWriter: os.Create(archivename), log.Fatal if that fails
CBZSaver_OnChapterEnd(ch) ==
    /\ Alive /\ chPc[ch] = "chapterEnd" /\ mode = "archive"
    /\ LET archivename == ContainerName(ThisPageInfo(ch))
           h == Create(fs, archivename)
       IN  IF CanCreate(fs, archivename)
           THEN /\ fs' = h
                /\ files' = Truncate(files, h[archivename].ino)
                /\ zipIno' = [zipIno EXCEPT ![ch] = h[archivename].ino]
                /\ zipNext' = [zipNext EXCEPT ![ch] = 0]
                /\ published' = [published EXCEPT ![ch] = archivename]
                /\ chapterEnded' = [chapterEnded EXCEPT ![ch] = TRUE]
                /\ chPc' = [chPc EXCEPT ![ch] = "walk"]
                /\ UNCHANGED <<requested, exitStatus, mainPc, imgPc, imgIno, imgOff, finalized>>
           ELSE /\ Exit("1")
                /\ UNCHANGED diskVars
    /\ UNCHANGED <<siteVars, runVars>>
    /\ UNCHANGED crawlFrame

\* CBZSaver.OnChapterEnd: the function given to filepath.Walk runs for the
\* next file: CreateHeader and io.Copy of the file into the archive
CBZSaver_Walk(ch) ==
    /\ Alive /\ chPc[ch] = "walk"
    /\ LET tmparchivename == TmpContainer(ThisPageInfo(ch))
           list == WalkFiles(fs, tmparchivename)
       IN  /\ zipNext[ch] < Len(list)
           /\ LET path == list[zipNext[ch] + 1]
                  entry == [name |-> SubSeq(path, Len(tmparchivename) + 2, Len(path)),
                            data |-> files[fs[path].ino]]
              IN  files' = Write(files, zipIno[ch], Len(files[zipIno[ch]]), entry)
    /\ zipNext' = [zipNext EXCEPT ![ch] = @ + 1]
    /\ UNCHANGED <<requested, exitStatus, mainPc, chPc, imgPc, imgIno, imgOff, zipIno,
                   chapterEnded, finalized, siteVars, runVars, fs, published>>
    /\ UNCHANGED crawlFrame

\* CBZSaver.OnChapterEnd returns: the deferred archive.Close() writes the
\* central directory, the deferred zipfile.Close() closes the file
CBZSaver_Close(ch) ==
    /\ Alive /\ chPc[ch] = "walk"
    /\ zipNext[ch] = Len(WalkFiles(fs, TmpContainer(ThisPageInfo(ch))))
    /\ files' = Write(files, zipIno[ch], Len(files[zipIno[ch]]), CentralDirectory)
    /\ zipIno' = [zipIno EXCEPT ![ch] = 0]
    /\ zipNext' = [zipNext EXCEPT ![ch] = 0]
    /\ chPc' = [chPc EXCEPT ![ch] = "done"]
    /\ UNCHANGED <<requested, exitStatus, mainPc, imgPc, imgIno, imgOff, chapterEnded, finalized,
                   siteVars, runVars, fs, published>>
    /\ UNCHANGED crawlFrame

\* main: every handleChapter has returned, wg.Wait() returns and main ends
main_Return ==
    /\ Alive /\ mainPc = "wait"
    /\ \A ch \in Chapters : chPc[ch] \in {"done", "skipped"}
    /\ Exit("0")
    /\ UNCHANGED <<siteVars, runVars, diskVars>>
    /\ UNCHANGED crawlFrame

\* the process is killed (a signal, a power cut) between two steps
Kill ==
    /\ Alive
    /\ Exit("killed")
    /\ UNCHANGED <<siteVars, runVars, diskVars>>
    /\ UNCHANGED crawlFrame

\* main is started again in the same directory with the same chapter URL
main ==
    /\ ~Alive
    /\ target' = target
    /\ exitStatus' = "running"
    /\ mainPc' = "handleManga"
    /\ UNCHANGED <<chPc, imgPc, imgIno, imgOff, zipIno, zipNext, chapterEnded,
                   finalized, requested, siteVars, diskVars>>
    /\ UNCHANGED crawlFrame

CrawlNext ==
    \/ \E ok \in BOOLEAN : handleManga(ok)
    \/ \E ch \in Chapters : handleChapter_Block(ch)
    \/ \E ch \in Chapters, ok \in BOOLEAN : handleChapter_GetHTML(ch, ok)
    \/ \E t \in Tasks, ok \in BOOLEAN : handlePage_GetHTML(t, ok)
    \/ \E t \in Tasks, ok \in BOOLEAN : handleImage_Get(t, ok)
    \/ \E t \in Tasks, ok \in BOOLEAN : Save(t, ok)
    \/ \E t \in Tasks, ok \in BOOLEAN : handleImage_Copy(t, ok)
    \/ \E t \in Tasks : handleImage_Return(t)
    \/ \E t \in Tasks : handlePage_OnPageEnd(t)
    \/ \E ch \in Chapters : handleChapter_OnPageEnd(ch)
    \/ \E ch \in Chapters : PageSaver_OnChapterEnd(ch)
    \/ \E ch \in Chapters : CBZSaver_OnChapterEnd(ch)
    \/ \E ch \in Chapters : CBZSaver_Walk(ch)
    \/ \E ch \in Chapters : CBZSaver_Close(ch)
    \/ main_Return
    \/ Kill
    \/ main

CrawlSpec == CrawlInit /\ [][CrawlNext]_vars

(***************************************************************************)
(* Claims about the Fetcher (checked under FetchSpec)                      *)
(***************************************************************************)
Rules == 1..Len(domainRules)

\* calls that hold a slot of rule i: acquired and not yet released
Holders(i) == {c \in Gets : getRule[c] = i /\ getAcquired[c] > getReleased[c]}

\* C1: at no instant do more than maxConnections calls hold an acquired and
\* not yet released slot of one rule
C1_AdmissionBound ==
    \A i \in Rules : Cardinality(Holders(i)) <= domainRules[i].maxConnections

\* C1 witness: a rule's slots are all taken while another call waits for one
C1_Witness ==
    \E i \in Rules :
        /\ Cardinality(Holders(i)) = domainRules[i].maxConnections
        /\ \E c \in Gets : getPc[c] = "semaphore" /\ getRule[c] = i

\* C2: a call that acquired a slot has released it exactly once when it
\* has returned, and not before; once every call has returned no slot of
\* any rule is held
C2_ReleasedOnReturn ==
    /\ \A c \in Gets :
          /\ getPc[c] = "returned" => getReleased[c] = getAcquired[c]
          /\ getPc[c] # "returned" => getReleased[c] = 0
          /\ getReleased[c] <= 1
    /\ (\A c \in Gets : getPc[c] \in {"idle", "returned"})
          => \A i \in Rules : semaphore[i] = 0 /\ Holders(i) = {}

\* C2 witness: every call has returned, one with a status error and one
\* with a cancellation, each after taking a slot
C2_Witness ==
    /\ \A c \in Gets : getPc[c] = "returned" /\ getAcquired[c] = 1
    /\ \E c \in Gets : getRet[c].err.type = "errorString"
    /\ \E c \in Gets : getRet[c].err.type = "url.Error"

\* C3 (the claim as stated): a Get to a host for which Limit configured a
\* rule is governed by that host rule; the catch-all governs only hosts
\* that match no other rule
C3_HostRuleGoverns ==
    \A c \in Gets :
        getPc[c] # "idle" =>
            LET hostRules == {i \in Rules : domainRules[i].domain = getHost[c]}
            IN  hostRules # {} => getRule[c] \in hostRules

\* C4 (the claim as stated): a non-success status comes back as no response
\* and an error that carries the status code and the location as fields
C4_TypedStatusError ==
    \A c \in Gets :
        (getPc[c] = "returned" /\ getStatus[c] \notin {0, 200}) =>
            /\ getRet[c].resp = NilResponse
            /\ getRet[c].err # NilError
            /\ "code" \in DOMAIN getRet[c].err
            /\ getRet[c].err.code = getStatus[c]
            /\ "url" \in DOMAIN getRet[c].err
            /\ getRet[c].err.url = getHost[c]

\* C5 (the claim as stated): once the token is cancelled, a call waiting
\* for a slot or for a tick takes neither: it leaves the wait only by
\* returning
C5_CancelEndsWaiting ==
    [][ctxDone =>
         \A c \in Gets :
            /\ getPc[c] = "semaphore" => getPc'[c] \in {"semaphore", "returned"}
            /\ getPc[c] = "rateLimiter" => getPc'[c] \in {"rateLimiter", "returned"}]_vars

\* C6: a request is issued only by a call that holds a slot and has then
\* received a tick; a tick is received by one call only, so under each rule
\* requests issued <= ticks received <= ticks produced
C6_TickBeforeRequest ==
    /\ \A c \in Gets :
          /\ getIssued[c] => (getAcquired[c] = 1 /\ getTick[c] = 1)
          /\ getTick[c] <= getAcquired[c]
          /\ getPc[c] \in {"do", "inflight"} => c \in Holders(getRule[c])
    /\ \A i \in Rules :
          /\ requestsIssued[i] = Cardinality({c \in Gets : getRule[c] = i /\ getIssued[c]})
          /\ ticksConsumed[i] = Cardinality({c \in Gets : getRule[c] = i /\ getTick[c] = 1})
          /\ requestsIssued[i] <= ticksConsumed[i]
          /\ ticksConsumed[i] <= ticksProduced[i]

\* C6 witness: two requests issued under one rule, each on a tick of its own
C6_Witness ==
    \E i \in Rules : requestsIssued[i] >= 2 /\ ticksProduced[i] >= 2

(***************************************************************************)
(* Claims about the save protocol (checked under CrawlSpec)                *)
(***************************************************************************)
\* inodes some handleImage still has open for writing
OpenInos == {imgIno[t] : t \in Tasks} \ {0}

\* the content is the whole image of some page
IsWholeImage(content) == \E t \in Tasks : content = Body(t[1], t[2])

\* files with a final name inside a temporary container
FinalLeaves ==
    {q \in DOMAIN fs :
        /\ fs[q].kind = "file"
        /\ Parent(q) # <<>>
        /\ Parent(q)[Len(Parent(q))] = ".part"
        /\ q[Len(q)] # ".part"}

\* the permanent container of the chapter, as OnChapterEnd made it, exists
PermanentExists(ch) == published[ch] # <<>> /\ published[ch] \in DOMAIN fs

\* the permanent container of the chapter holds the whole image of each page
ContainerComplete(ch) ==
    LET container == ContainerName(GetChapters(ch))
    IN  IF mode = "folder"
        THEN \A p \in 1..numPages :
                \E q \in DOMAIN fs :
                    /\ IsUnder(container, q)
                    /\ fs[q].kind = "file"
                    /\ files[fs[q].ino] = Body(ch, p)
        ELSE LET zip == files[fs[container].ino]
             IN  /\ zip # <<>>
                 /\ zip[Len(zip)] = CentralDirectory
                 /\ \A p \in 1..numPages :
                        \E i \in 1..Len(zip) :
                            "data" \in DOMAIN zip[i] /\ zip[i].data = Body(ch, p)

\* C7 (the claim as stated): a leaf carries its final name only when its
\* writer has received the whole body and has been closed; a leaf whose
\* download failed or is still being written is never renamed
C7_RenamedLeafComplete ==
    \A q \in FinalLeaves :
        /\ IsWholeImage(files[fs[q].ino])
        /\ fs[q].ino \notin OpenInos

\* C8 (the claim as stated): when OnChapterEnd has been invoked for a chapter,
\* every one of its pages was downloaded without error and finalized
C8_ChapterEndAfterAllPages ==
    \A ch \in Chapters :
        chapterEnded[ch] =>
            \A p \in 1..numPages :
                imgPc[<<ch, p>>] = "done" /\ finalized[<<ch, p>>]

\* C9 (the claim as stated): in every state of the filesystem, whenever the
\* process may end, a permanent container that exists (one for which Block
\* answers true) holds all the pages of its chapter, complete
C9_PermanentContainerComplete ==
    \A ch \in Chapters :
        (PermanentExists(ch) \/ SaverBlock(GetChapters(ch))) => ContainerComplete(ch)

\* C10: Block answers true exactly when the permanent container of the
\* chapter exists (a directory in folder mode, a file in archive mode); the
\* container under its ".part" name never makes it answer true; and
\* handleChapter goes on or returns accordingly
C10_BlockIffPermanent ==
    \A ch \in Chapters :
        /\ SaverBlock(GetChapters(ch)) <=> PermanentExists(ch)
        /\ (TmpContainer(GetChapters(ch)) \in DOMAIN fs /\ ~PermanentExists(ch))
              => ~SaverBlock(GetChapters(ch))
        /\ (ch = target /\ chPc[ch] = "skipped") => PermanentExists(ch)
        /\ chPc[ch] \in {"fetch", "wait"} => ~PermanentExists(ch)

\* C10 witness: in a later run the requested chapter is skipped because its
\* permanent container exists
C10_Witness ==
    \E ch \in Chapters : Alive /\ ch = target /\ chPc[ch] = "skipped"

\* a later run goes on with a chapter of which only the ".part" container exists
TmpOnlyNotBlocked ==
    \E ch \in Chapters :
        /\ Alive /\ chPc[ch] = "fetch"
        /\ TmpContainer(GetChapters(ch)) \in DOMAIN fs

\* a chapter has been published with all its pages complete
PublishedComplete == \E ch \in Chapters : PermanentExists(ch) /\ ContainerComplete(ch)

(***************************************************************************)
(* Claims about whole runs (checked under CrawlSpec)                       *)
(***************************************************************************)
\* the names of the leaves the permanent container of the chapter holds
ContainerLeaves(ch) ==
    LET container == ContainerName(GetChapters(ch))
    IN  IF mode = "folder"
        THEN {SubSeq(q, Len(container) + 2, Len(q)) :
                q \in {q \in DOMAIN fs : IsUnder(container, q) /\ fs[q].kind = "file"}}
        ELSE LET zip == files[fs[container].ino]
             IN  {zip[i].name : i \in {i \in 1..Len(zip) : "name" \in DOMAIN zip[i]}}

\* every page of the chapter was fetched and written without an error in
\* this run, and handleChapter has returned
ChapterRunSucceeded(ch) ==
    /\ Alive /\ chPc[ch] = "done"
    /\ \A p \in 1..numPages : imgPc[<<ch, p>>] = "done"

\* C11 (the claim as stated): a run in which every fetch and every write
\* succeeds leaves, for each chapter it handled, a permanent container that
\* holds exactly one finalized leaf per page: none missing, none under a
\* ".part" name, each the whole image of its page
C11_SuccessfulRunComplete ==
    \A ch \in Chapters :
        ChapterRunSucceeded(ch) =>
            /\ PermanentExists(ch)
            /\ Cardinality(ContainerLeaves(ch)) = numPages
            /\ \A n \in ContainerLeaves(ch) : n[Len(n)] # ".part"
            /\ ContainerComplete(ch)

\* tasks whose handleImage holds the writer Save returned
Writing == {t \in Tasks : imgPc[t] = "copy"}

\* C12 (the claim as stated): two tasks that write at the same time write to
\* different temporary paths, so no temporary file is open for writing in
\* two tasks
C12_DistinctTemporaryPaths ==
    \A t1 \in Writing, t2 \in Writing :
        t1 # t2 =>
            /\ TmpLeaf(ImageInfo(t1)) # TmpLeaf(ImageInfo(t2))
            /\ imgIno[t1] # imgIno[t2]

\* the permanent container of the chapter was there when this run started:
\* Block answers true and no OnChapterEnd of this run has made it
FinalizedBefore(ch) == SaverBlock(GetChapters(ch)) /\ ~chapterEnded[ch]

InProgress(ch) == chPc[ch] \in {"fetch", "wait", "chapterEnd", "walk"}

\* C14 (the claim as stated): whenever the run may be ended while a chapter
\* is in progress, nothing exists under the permanent name of that chapter,
\* only ".part" artifacts; and a chapter a later run skips as finalized is
\* what an uninterrupted run leaves: a container with all its pages
C14_InterruptedLeavesOnlyPart ==
    \A ch \in Chapters :
        /\ (Alive /\ InProgress(ch)) => ContainerName(GetChapters(ch)) \notin DOMAIN fs
        /\ (Alive /\ ch = target /\ chPc[ch] = "skipped") => ContainerComplete(ch)

(***************************************************************************)
(* Claims about what the handlers touch (checked under CrawlSpec)          *)
(***************************************************************************)
\* the step is the call of Save by the task t (with or without an error)
SaveStep(t) == imgPc[t] = "save" /\ imgPc'[t] # "save" /\ exitStatus' # "killed"

\* the permanent names of the chapters
PermanentNames == {ContainerName(GetChapters(ch)) : ch \in Chapters}

\* C15: a call of Save adds only paths with a ".part" name (the container
\* and the leaf) and the directories above the container, removes and
\* retargets no path, changes no file but the ".part" leaf it opens, and
\* makes no permanent container; a permanent container exists only once
\* OnChapterEnd has made it
C15_SaveWritesOnlyPart ==
    /\ [][\A t \in Tasks :
            SaveStep(t) =>
                LET info == ImageInfo(t)
                IN  /\ \A q \in DOMAIN fs : q \in DOMAIN fs' /\ fs'[q] = fs[q]
                    /\ \A q \in DOMAIN fs' \ DOMAIN fs :
                          /\ q \notin PermanentNames
                          /\ \/ q = TmpContainer(info) /\ q[Len(q)] = ".part"
                             \/ q = TmpLeaf(info) /\ q[Len(q)] = ".part"
                             \/ IsUnder(q, TmpContainer(info)) /\ isDir(fs', q)
                    /\ \A i \in DOMAIN files' :
                          (i \notin DOMAIN files \/ files'[i] # files[i]) =>
                              /\ TmpLeaf(info) \in DOMAIN fs'
                              /\ fs'[TmpLeaf(info)].ino = i
                    /\ \A i \in DOMAIN files : i \in DOMAIN files']_vars
    /\ [](\A ch \in Chapters :
            ContainerName(GetChapters(ch)) \in DOMAIN fs =>
                published[ch] = ContainerName(GetChapters(ch)))

\* C15 witness: Save has made the ".part" container and opened the ".part"
\* leaf of a page, and nothing exists under the permanent name
C15_Witness ==
    \E t \in Tasks :
        /\ imgPc[t] = "copy"
        /\ isDir(fs, TmpContainer(ImageInfo(t)))
        /\ isFile(fs, TmpLeaf(ImageInfo(t)))
        /\ ContainerName(ImageInfo(t)) \notin DOMAIN fs

\* what has been asked of the Fetcher for the chapter: its page, the pages
\* of its pages, its images
RequestedOf(ch) == {r \in requested : r.chapter = ch}

PageTasks(ch) == {t \in Tasks : t[1] = ch /\ t[2] <= numPages}

\* the goroutine of the task has returned
Terminated(t) == imgPc[t] \in {"done", "failed"}

\* C18: handleManga returns (and main with it) only when the goroutine of
\* every chapter has returned; the OnPageEnd of the first page and the
\* OnChapterEnd of a chapter are emitted only when the goroutine of each of
\* its pages has returned
C18_StructuredJoin ==
    /\ [][(mainPc = "wait" /\ exitStatus' = "0") =>
            \A ch \in Chapters : chPc[ch] \in {"done", "skipped"}]_vars
    /\ [][\A ch \in Chapters :
            (chPc[ch] = "wait" /\ chPc'[ch] = "chapterEnd") =>
                \A t \in PageTasks(ch) : Terminated(t)]_vars
    /\ [](\A ch \in Chapters :
            (chapterEnded[ch] \/ chPc[ch] \in {"chapterEnd", "walk", "done"}) =>
                \A t \in PageTasks(ch) : Terminated(t))

\* C18 witness: OnChapterEnd has been invoked for a chapter of two pages,
\* both page goroutines having returned, and handleManga is still waiting
C18_Witness ==
    \E ch \in Chapters :
        /\ Alive /\ mainPc = "wait" /\ numPages = 2
        /\ chapterEnded[ch] /\ chPc[ch] = "done"
        /\ \A t \in PageTasks(ch) : imgPc[t] = "done"

(***************************************************************************)
(* Two URLs of one chapter on the command line.  main starts one Handle    *)
(* goroutine per argument, each with a crawler of its own; the saver, the  *)
(* rule and the directory are shared.  One handler is followed step by     *)
(* step as in CrawlSpec; the other one, for the same chapter, is taken as  *)
(* a whole, at the moment its OnChapterEnd makes the container permanent.  *)
(***************************************************************************)
\* the other handler has saved the pages of the chapter under the names the
\* saver gives them (the last page written under a name is the one kept)
\* and its OnChapterEnd has returned
OtherHandle(ch, p) ==
    /\ Alive /\ mainPc = "wait"
    /\ ch = target /\ chPc[ch] \in {"block", "fetch"}
    /\ p \in 1..numPages
    /\ LET info == ThisPageInfo(ch)
           container == ContainerName(info)
           tmp == TmpContainer(info)
       IN  /\ container \notin DOMAIN fs /\ tmp \notin DOMAIN fs
           /\ IF mode = "folder"
              THEN LET leaf == Join(container, LeafName(info))
                       h == Create(MkdirAll(fs, container), leaf)
                   IN  /\ fs' = h
                       /\ files' = [i \in DOMAIN files \cup {h[leaf].ino} |->
                                       IF i = h[leaf].ino THEN Body(ch, p) ELSE files[i]]
              ELSE LET leaf == Join(tmp, LeafName(info))
                       g == Create(MkdirAll(fs, tmp), leaf)
                       zipped == [i \in DOMAIN files \cup {g[leaf].ino} |->
                                     IF i = g[leaf].ino THEN Body(ch, p) ELSE files[i]]
                       zipIn == Min((1..(Cardinality(DOMAIN zipped) + 1)) \ DOMAIN zipped)
                       h == [q \in DOMAIN g \cup {container} |->
                                IF q = container THEN [kind |-> "file", ino |-> zipIn]
                                ELSE g[q]]
                   IN  /\ fs' = h
                       /\ files' = [i \in DOMAIN zipped \cup {zipIn} |->
                                       IF i = zipIn
                                       THEN <<[name |-> LeafName(info), data |-> Body(ch, p)],
                                              CentralDirectory>>
                                       ELSE zipped[i]]
           /\ published' = [published EXCEPT ![ch] = container]
    /\ UNCHANGED <<siteVars, runVars, procVars>>
    /\ UNCHANGED crawlFrame

TwoUrlsNext ==
    \/ \E ok \in BOOLEAN : handleManga(ok)
    \/ \E ch \in Chapters : handleChapter_Block(ch)
    \/ \E ch \in Chapters, ok \in BOOLEAN : handleChapter_GetHTML(ch, ok)
    \/ \E ch \in Chapters, p \in Pages : OtherHandle(ch, p)
    \/ \E t \in Tasks, ok \in BOOLEAN : handlePage_GetHTML(t, ok)
    \/ \E t \in Tasks, ok \in BOOLEAN : handleImage_Get(t, ok)
    \/ \E t \in Tasks, ok \in BOOLEAN : Save(t, ok)
    \/ \E t \in Tasks, ok \in BOOLEAN : handleImage_Copy(t, ok)
    \/ \E t \in Tasks : handleImage_Return(t)
    \/ \E t \in Tasks : handlePage_OnPageEnd(t)
    \/ \E ch \in Chapters : handleChapter_OnPageEnd(ch)
    \/ \E ch \in Chapters : PageSaver_OnChapterEnd(ch)
    \/ \E ch \in Chapters : CBZSaver_OnChapterEnd(ch)
    \/ \E ch \in Chapters : CBZSaver_Walk(ch)
    \/ \E ch \in Chapters : CBZSaver_Close(ch)
    \/ main_Return

TwoUrlsSpec == CrawlInit /\ [][TwoUrlsNext]_vars

\* C17 (the claim as stated): once the page of the chapter is fetched and
\* the metadata merged, the rule is asked again, on the full metadata, and
\* the page tasks are started only if it does not block
C17_RuleAskedAgainAfterFetch ==
    [][\A ch \in Chapters :
          (chPc[ch] = "fetch" /\ chPc'[ch] = "wait") => ~SaverBlock(ThisPageInfo(ch))]_vars

(***************************************************************************)
(* The progress bar: the goroutine run owns nextPlace and the terminal;    *)
(* the downloads and main talk to it over unbuffered channels, so a send   *)
(* and the matching receive are one step                                   *)
(***************************************************************************)
\* the process has not ended
Running == stopPc # "exited"

\* what run prints for a progress value: grey when the total is unknown,
\* else the colour of the gradient at sofar / total
Cell(task) ==
    IF task.total <= 0 THEN [color |-> 7]
    ELSE [sofar |-> task.sofar, total |-> task.total]

\* run: fmt.Print("\033[?25l"), and the deferred restoration is registered
run_CursorOff ==
    /\ Running /\ runPc = "start"
    /\ cursor' = "off"
    /\ runPc' = "select"
    /\ UNCHANGED <<nextPlace, tickBuf, stoppedClosed, restores, screen, taskPc,
                   taskInfo, stopPc>>
    /\ UNCHANGED progressFrame

\* PageSaver.Save / CBZSaver.Save reach s.progressBar.StartTask(size)
Save_StartTask(t, total) ==
    /\ Running /\ stopPc = "crawl" /\ taskPc[t] = "idle"
    /\ taskInfo' = [taskInfo EXCEPT ![t] = [place |-> 0, sofar |-> 0, total |-> total]]
    /\ taskPc' = [taskPc EXCEPT ![t] = "startCh"]
    /\ UNCHANGED <<runPc, nextPlace, tickBuf, stoppedClosed, cursor, restores, screen,
                   stopPc>>
    /\ UNCHANGED progressFrame

\* a run that hands out the same place again and again
run_StartSamePlace(t) ==
    /\ Running /\ runPc = "select" /\ taskPc[t] = "startCh"
    /\ taskInfo' = [taskInfo EXCEPT ![t].place = nextPlace]
    /\ taskPc' = [taskPc EXCEPT ![t] = "tickCh"]
    /\ UNCHANGED <<runPc, nextPlace, tickBuf, stoppedClosed, cursor, restores, screen,
                   stopPc>>
    /\ UNCHANGED progressFrame

\* run: "case self.startCh <- nextPlace: nextPlace++", received by the
\* StartTask of download t, which goes on to TickTask(newTask, 0)
run_Start(t) ==
    /\ Running /\ runPc = "select" /\ taskPc[t] = "startCh"
    /\ taskInfo' = [taskInfo EXCEPT ![t].place = nextPlace]
    /\ nextPlace' = nextPlace + 1
    /\ taskPc' = [taskPc EXCEPT ![t] = "tickCh"]
    /\ UNCHANGED <<runPc, tickBuf, stoppedClosed, cursor, restores, screen, stopPc>>
    /\ UNCHANGED progressFrame

\* a send on tickCh that completes although run has received nothing: what
\* a channel with a buffer would allow
run_TickBuffered(t) ==
    /\ Running /\ taskPc[t] = "tickCh"
    /\ taskPc' = [taskPc EXCEPT ![t] = "copy"]
    /\ UNCHANGED <<runPc, nextPlace, tickBuf, stoppedClosed, cursor, restores, screen,
                   taskInfo, stopPc>>
    /\ UNCHANGED progressFrame

\* run: "case task := <-self.tickCh", sent by the TickTask of download t
run_Tick(t) ==
    /\ Running /\ runPc = "select" /\ taskPc[t] = "tickCh"
    /\ tickBuf' = taskInfo[t]
    /\ runPc' = "print"
    /\ taskPc' = [taskPc EXCEPT ![t] = "copy"]
    /\ UNCHANGED <<nextPlace, stoppedClosed, cursor, restores, screen, taskInfo, stopPc>>
    /\ UNCHANGED progressFrame

\* run: fmt.Printf("\033[%dG\033[48;5;%dm \033[0m", task.place, color)
run_Print ==
    /\ Running /\ runPc = "print"
    /\ screen' = [screen EXCEPT ![tickBuf.place] = Cell(tickBuf)]
    /\ tickBuf' = NoProgress
    /\ runPc' = "select"
    /\ UNCHANGED <<nextPlace, stoppedClosed, cursor, restores, taskPc, taskInfo, stopPc>>
    /\ UNCHANGED progressFrame

\* ProgressWriter.Write: the callback calls TickTask(task, p.progress)
ProgressWriter_Write(t) ==
    /\ Running /\ taskPc[t] = "copy" /\ taskInfo[t].sofar < MaxSofar
    /\ taskInfo' = [taskInfo EXCEPT ![t].sofar = @ + 1]
    /\ taskPc' = [taskPc EXCEPT ![t] = "tickCh"]
    /\ UNCHANGED <<runPc, nextPlace, tickBuf, stoppedClosed, cursor, restores, screen,
                   stopPc>>
    /\ UNCHANGED progressFrame

\* ProgressWriter.Close: io.Copy is over, at the end of the body or at an error
ProgressWriter_Close(t) ==
    /\ Running /\ taskPc[t] = "copy"
    /\ taskPc' = [taskPc EXCEPT ![t] = "done"]
    /\ UNCHANGED <<runPc, nextPlace, tickBuf, stoppedClosed, cursor, restores, screen,
                   taskInfo, stopPc>>
    /\ UNCHANGED progressFrame

\* main: wg.Wait() has returned, every handler with its downloads is over;
\* main returns and the deferred progressBar.Stop() starts
main_Defer ==
    /\ Running /\ stopPc = "crawl"
    /\ \A t \in Downloads : taskPc[t] \in {"idle", "done"}
    /\ stopPc' = "stopCh"
    /\ UNCHANGED <<runPc, nextPlace, tickBuf, stoppedClosed, cursor, restores, screen,
                   taskPc, taskInfo>>
    /\ UNCHANGED progressFrame

\* Stop: "self.stopCh <- empty{}", received by run's "case <-self.stopCh:
\* break loop"
run_Stop ==
    /\ Running /\ runPc = "select" /\ stopPc = "stopCh"
    /\ runPc' = "close"
    /\ stopPc' = "stopped"
    /\ UNCHANGED <<nextPlace, tickBuf, stoppedClosed, cursor, restores, screen, taskPc,
                   taskInfo>>
    /\ UNCHANGED progressFrame

\* run: close(self.stopped), the last statement of the function body
run_Close ==
    /\ Running /\ runPc = "close"
    /\ stoppedClosed' = TRUE
    /\ runPc' = "deferred"
    /\ UNCHANGED <<nextPlace, tickBuf, cursor, restores, screen, taskPc, taskInfo, stopPc>>
    /\ UNCHANGED progressFrame

\* run returns: the deferred fmt.Print("\033[?25h")
run_CursorOn ==
    /\ Running /\ runPc = "deferred"
    /\ cursor' = "on"
    /\ restores' = restores + 1
    /\ runPc' = "returned"
    /\ UNCHANGED <<nextPlace, tickBuf, stoppedClosed, screen, taskPc, taskInfo, stopPc>>
    /\ UNCHANGED progressFrame

\* Stop: "<-self.stopped" returns once the channel is closed
Stop_Return ==
    /\ Running /\ stopPc = "stopped" /\ stoppedClosed
    /\ stopPc' = "returned"
    /\ UNCHANGED <<runPc, nextPlace, tickBuf, stoppedClosed, cursor, restores, screen,
                   taskPc, taskInfo>>
    /\ UNCHANGED progressFrame

\* main has returned: the process ends, and every goroutine with it
main_Exit ==
    /\ stopPc = "returned"
    /\ stopPc' = "exited"
    /\ UNCHANGED <<runPc, nextPlace, tickBuf, stoppedClosed, cursor, restores, screen,
                   taskPc, taskInfo>>
    /\ UNCHANGED progressFrame

ProgressInit ==
    /\ NewFetcher(MaxConnections)
    /\ GetsIdle
    /\ CrawlIdle
    /\ NewProgressBar
    /\ UnitsIdle

ProgressNext ==
    \/ run_CursorOff
    \/ \E t \in Downloads, total \in Totals : Save_StartTask(t, total)
    \/ \E t \in Downloads : run_Start(t)
    \/ \E t \in Downloads : run_Tick(t)
    \/ run_Print
    \/ \E t \in Downloads : ProgressWriter_Write(t)
    \/ \E t \in Downloads : ProgressWriter_Close(t)
    \/ main_Defer
    \/ run_Stop
    \/ run_Close
    \/ run_CursorOn
    \/ Stop_Return
    \/ main_Exit

ProgressSpec == ProgressInit /\ [][ProgressNext]_vars

(***************************************************************************)
(* Claims about the progress bar (checked under ProgressSpec)              *)
(***************************************************************************)
\* downloads whose StartTask has received a place
Placed == {t \in Downloads : taskInfo[t].place # 0}

\* C19: the places handed out are 1, 2, 3, ... in the order of the
\* allocations: never 0, no place given to two downloads, no place given
\* again later; the counter only grows and a download keeps its place
C19_PlacesStrictlyIncreasing ==
    /\ [](/\ nextPlace >= 1
          /\ \A t \in Placed : taskInfo[t].place >= 1 /\ taskInfo[t].place < nextPlace
          /\ \A t1 \in Placed, t2 \in Placed :
                t1 # t2 => taskInfo[t1].place # taskInfo[t2].place
          /\ {taskInfo[t].place : t \in Placed} = 1..(nextPlace - 1))
    /\ [][/\ nextPlace' >= nextPlace
          /\ \A t \in Downloads :
                /\ taskInfo[t].place # 0 => taskInfo'[t].place = taskInfo[t].place
                /\ (taskInfo[t].place = 0 /\ taskInfo'[t].place # 0) =>
                      /\ taskInfo'[t].place = nextPlace
                      /\ nextPlace' = nextPlace + 1]_vars

\* C19 witness: two downloads have been given places, 1 and 2
C19_Witness ==
    /\ Cardinality(Placed) >= 2
    /\ \E t1 \in Placed, t2 \in Placed :
          taskInfo[t1].place = 1 /\ taskInfo[t2].place = 2

\* C20 (the claim as stated): when Stop has returned, run has returned too:
\* the cursor-on sequence has been written, once, before the return of Stop
C20_StopAfterRestoration ==
    stopPc \in {"returned", "exited"} =>
        /\ runPc = "returned"
        /\ restores = 1
        /\ cursor = "on"

(***************************************************************************)
(* Who writes to the terminal (checked under FetchSpec)                    *)
(***************************************************************************)
\* the goroutines "go p.run()" has started and that have not returned
Owners == IF runPc = "returned" THEN {} ELSE {"run"}

\* Get: log.Println("GET", u) is the statement in front of the request, and
\* the standard logger writes to the standard error of the process: the
\* calls of Get that have written their line
Logged == {c \in Gets : getPc[c] \in {"inflight", "returned"}}

\* C21 (the claim as stated): there is one owner, and no call of the
\* Fetcher has written to the terminal
C21_OnlyOwnerWritesTerminal ==
    /\ Cardinality(Owners) = 1
    /\ Logged = {}

(***************************************************************************)
(* Claims about the channels of the progress bar (checked under            *)
(* ProgressSpec)                                                           *)
(***************************************************************************)
\* StartTask of download t returns its place in this step
Allocated(t) == taskPc[t] = "startCh" /\ taskPc'[t] # "startCh"

\* the send of TickTask of download t completes in this step
TickSent(t) == taskPc[t] = "tickCh" /\ taskPc'[t] # "tickCh"

\* run executes its Printf in this step
Printed == runPc = "print" /\ runPc' # "print"

\* C22: StartTask and TickTask return in the very step in which run serves
\* them (run was in its select, gave out nextPlace or took the progress
\* value); run holds at most the one tick it is about to print and takes no
\* other request before it has printed it; the screen changes only by the
\* print of the tick received last, and every received tick is printed in
\* the next step of run: so each tick sent is printed once, in sending
\* order, and between two sends of a download its lane shows its last tick
C22_SynchronousHandOff ==
    /\ [][/\ \A t \in Downloads :
                /\ Allocated(t) =>
                      /\ runPc = "select" /\ runPc' = "select"
                      /\ taskInfo'[t].place = nextPlace
                      /\ nextPlace' = nextPlace + 1
                /\ TickSent(t) =>
                      /\ runPc = "select" /\ runPc' = "print"
                      /\ tickBuf = NoProgress
                      /\ tickBuf' = taskInfo[t]
                      /\ taskInfo' = taskInfo
          /\ Cardinality({t \in Downloads : Allocated(t) \/ TickSent(t)}) <= 1
          /\ Printed =>
                /\ screen' = [screen EXCEPT ![tickBuf.place] = Cell(tickBuf)]
                /\ tickBuf' = NoProgress
                /\ runPc' = "select"
          /\ screen' # screen => Printed
          /\ runPc = "print" =>
                /\ \A t \in Downloads : ~Allocated(t) /\ ~TickSent(t)
                /\ ~(stopPc = "stopCh" /\ stopPc' # "stopCh")
                /\ tickBuf' # tickBuf => Printed]_vars
    /\ [](/\ runPc = "print" <=> tickBuf # NoProgress
          /\ \A t \in Downloads :
                (taskPc[t] \in {"copy", "done"} /\ tickBuf # taskInfo[t]) =>
                    screen[taskInfo[t].place] = Cell(taskInfo[t]))

\* C22 witness: a download has sent its ticks 0, 1 and 2, the last one is
\* on the screen in its lane, and another download holds a lane as well
C22_Witness ==
    \E t \in Downloads, u \in Downloads :
        /\ t # u
        /\ taskPc[t] = "copy"
        /\ taskInfo[t].sofar = MaxSofar /\ taskInfo[t].total = MaxSofar
        /\ screen[taskInfo[t].place] = [sofar |-> MaxSofar, total |-> MaxSofar]
        /\ taskInfo[u].place # 0
        /\ runPc = "select"

(***************************************************************************)
(* MangaReaderCrawler.handleChapter with the guessing of image names       *)
(* (mangareader.go): one chapter, the handler called on a document that    *)
(* shows the page "selected" of a menu of pagesLen pages                   *)
(***************************************************************************)
ImageIds == {1, 4, 9}                         \* numbers in the image names of the site
NamePrefixes == {<<"naruto">>, <<"x", "-", "7">>}

Abs(n) == IF n < 0 THEN -n ELSE n

\* the quotient rounded toward minus infinity
FloorDiv(a, b) == a \div b

\* Go's "/" on ints: the quotient truncated toward zero
GoDiv(a, b) ==
    IF (a >= 0) = (b > 0) THEN Abs(a) \div Abs(b) ELSE -(Abs(a) \div Abs(b))

IsDigit(c) == \E i \in 1..10 : DigitChars[i] = c
DigitValue(c) == (CHOOSE i \in 1..10 : DigitChars[i] = c) - 1

RECURSIVE Atoi(_)
\* strconv.Atoi of a non-empty run of digits
Atoi(s) ==
    IF Len(s) = 1 THEN DigitValue(s[1])
    ELSE 10 * Atoi(SubSeq(s, 1, Len(s) - 1)) + DigitValue(s[Len(s)])

\* the %d verb of an int
FormatSigned(n) == IF n < 0 THEN <<"-">> \o Itoa(-n) ELSE Itoa(n)

\* the base name the site gives the image with the number id
ImageName(prefix, id) == prefix \o <<"-">> \o Itoa(id) \o <<".", "jpg">>

\* IMAGE_NAME_RE = (?P<prefix>.*)-(?P<number>\d+).(?P<suffix>.*) on a base
\* name: the greedy prefix ends at the last "-" that a digit and one more
\* character follow; the number is the longest run of digits that leaves a
\* character for the "."
MatchImageName(s) ==
    LET dashes == {i \in 1..Len(s) : s[i] = "-" /\ i + 2 <= Len(s) /\ IsDigit(s[i + 1])}
    IN  IF dashes = {} THEN [matched |-> FALSE]
        ELSE LET i == Max(dashes)
                 run == Max({j \in (i + 1)..Len(s) :
                                \A k \in (i + 1)..j : IsDigit(s[k])})
                 j == IF run = Len(s) THEN run - 1 ELSE run
             IN  [matched |-> TRUE,
                  prefix |-> SubSeq(s, 1, i - 1),
                  number |-> SubSeq(s, i + 1, j),
                  suffix |-> SubSeq(s, j + 2, Len(s))]

\* parseImageNumber: the number of the name, and the format "./<prefix>-%d.<suffix>"
parseImageNumber(s) ==
    LET match == MatchImageName(s)
    IN  [number |-> Atoi(match.number),
         pathFmt |-> [prefix |-> match.prefix, suffix |-> match.suffix]]

\* fmt.Sprintf(relPathFmt, id), resolved against the URL of an image of the
\* chapter: the base name of the guessed URL
Sprintf_pathFmt(pathFmt, id) ==
    pathFmt.prefix \o <<"-">> \o FormatSigned(id) \o <<".">> \o pathFmt.suffix

\* r.Status of net/http: the code and its reason phrase
Status(code) ==
    Itoa(code) \o <<" ">> \o
    (IF code = 404 THEN <<"Not Found">> ELSE <<"Internal Server Error">>)

\* the text of the error Get returns for a status other than 200:
\* fmt.Errorf("GET %s: %s", u.String(), r.Status) in main.go,
\* fmt.Errorf("GET %s: %d", u.String(), r.StatusCode) in part_005 and gradient.go
GetErrorText(verb, u, code) ==
    <<"G", "E", "T", " ">> \o u \o <<":", " ">> \o
    (IF verb = "%s" THEN Status(code) ELSE Itoa(code))

HasPrefix(s, prefix) ==
    Len(s) >= Len(prefix) /\ SubSeq(s, 1, Len(prefix)) = prefix
HasSuffix(s, suffix) ==
    Len(s) >= Len(suffix) /\ SubSeq(s, Len(s) - Len(suffix) + 1, Len(s)) = suffix

\* handleChapter: strings.HasPrefix(err.Error(), "GET") && strings.HasSuffix(err.Error(), "404")
IsNotFound(text) == HasPrefix(text, <<"G", "E", "T">>) /\ HasSuffix(text, <<"4", "0", "4">>)

\* the pages of the menu
MenuPages == 1..pagesLen
\* GetPages: the options that are not selected, in the order of the menu
OtherPages == MenuPages \ {selected}
\* guessImages: pages[len(pages)-1]
LastOther == Max(OtherPages)
\* the pages guessImages was given, the last of them still in the list
GuessedPagesAll == OtherPages
\* guessImages: the pages left after "pages = pages[:len(pages)-1]"
GuessedPages == OtherPages \ {LastOther}

CrawlerRunning == crawlerExit = "running"

\* log.Fatal in a goroutine of the crawler: os.Exit(1)
Fatal ==
    /\ crawlerExit' = "1"
    /\ UNCHANGED <<hcPc, pgPc, saved, pageEnds, lastImageName>>

\* handleChapter: GetHTML(chapter.url) has answered; GetPages finds the menu
\* and the image of the selected page; Block lets the chapter pass; the
\* goroutine for handleImage(thisPage[0]) is started
MR_handleChapter_GetPages(id) ==
    /\ CrawlerRunning /\ hcPc = "idle"
    /\ thisImageName' = ImageName(namePrefix, id)
    /\ pgPc' = [pgPc EXCEPT ![selected] = "imageGet"]
    /\ hcPc' = "branch"
    /\ UNCHANGED <<shouldGuess, statusVerb, pagesLen, selected, namePrefix,
                   lastImageName, docFetches, guessStatus, saved, pageEnds, calibrated,
                   divisor, delta, start, guesses, crawlerExit, imgFetches, dropped>>
    /\ UNCHANGED guessFrame

\* handleChapter, !m.shouldGuess: one goroutine handlePage(p) for every other page
MR_handleChapter_Pages ==
    /\ CrawlerRunning /\ hcPc = "branch" /\ ~shouldGuess
    /\ pgPc' = [p \in GuessPages |-> IF p \in OtherPages THEN "pageDoc" ELSE pgPc[p]]
    /\ hcPc' = "wait"
    /\ UNCHANGED <<shouldGuess, statusVerb, pagesLen, selected, namePrefix,
                   thisImageName, lastImageName, docFetches, guessStatus, saved,
                   pageEnds, calibrated, divisor, delta, start, guesses, crawlerExit,
                   imgFetches, dropped>>
    /\ UNCHANGED guessFrame

\* guessImages computing its step from the image it was given alone, for a
\* chapter without other pages
MR_guessImages_NoBypass ==
    /\ CrawlerRunning /\ hcPc = "branch" /\ shouldGuess /\ OtherPages = {}
    /\ divisor' = selected - selected
    /\ calibrated' = TRUE
    /\ crawlerExit' = "2"
    /\ UNCHANGED <<shouldGuess, statusVerb, pagesLen, selected, namePrefix,
                   thisImageName, lastImageName, hcPc, pgPc, docFetches, guessStatus,
                   saved, pageEnds, delta, start, guesses, imgFetches, dropped>>
    /\ UNCHANGED guessFrame

\* guessImages: "if len(pages) == 0 { return }", and handleChapter ranges
\* over the empty result
MR_guessImages_SinglePage ==
    /\ CrawlerRunning /\ hcPc = "branch" /\ shouldGuess /\ OtherPages = {}
    /\ hcPc' = "wait"
    /\ UNCHANGED <<shouldGuess, statusVerb, pagesLen, selected, namePrefix,
                   thisImageName, lastImageName, pgPc, docFetches, guessStatus, saved,
                   pageEnds, calibrated, divisor, delta, start, guesses, crawlerExit,
                   imgFetches, dropped>>
    /\ UNCHANGED guessFrame

\* guessImages: lastImageRes := m.handlePage(pages[len(pages)-1]), a call
\* in the goroutine of handleChapter
MR_guessImages_HandlePage ==
    /\ CrawlerRunning /\ hcPc = "branch" /\ shouldGuess /\ OtherPages # {}
    /\ pgPc' = [pgPc EXCEPT ![LastOther] = "pageDoc"]
    /\ hcPc' = "calibrate"
    /\ UNCHANGED <<shouldGuess, statusVerb, pagesLen, selected, namePrefix,
                   thisImageName, lastImageName, docFetches, guessStatus, saved,
                   pageEnds, calibrated, divisor, delta, start, guesses, crawlerExit,
                   imgFetches, dropped>>
    /\ UNCHANGED guessFrame

\* guessImages after handlePage has returned: the two images are put in
\* the order of their pages, their numbers are parsed, delta and start are
\* computed and a name is guessed for every page left; handleChapter starts
\* a goroutine for each guess.  A zero divisor is Go's run-time panic.
MR_guessImages_Compute ==
    /\ CrawlerRunning /\ hcPc = "calibrate" /\ pgPc[LastOther] = "done"
    /\ LET swap == selected > LastOther
           thisPage == IF swap THEN LastOther ELSE selected
           lastPage == IF swap THEN selected ELSE LastOther
           thisRes == IF swap THEN lastImageName ELSE thisImageName
           lastRes == IF swap THEN thisImageName ELSE lastImageName
           thisImage == parseImageNumber(thisRes).number
           relPathFmt == parseImageNumber(thisRes).pathFmt
           lastImage == parseImageNumber(lastRes).number
       IN  /\ divisor' = lastPage - thisPage
           /\ calibrated' = TRUE
           /\ IF lastPage - thisPage = 0
              THEN /\ crawlerExit' = "2"
                   /\ UNCHANGED <<delta, start, guesses, pgPc, hcPc>>
              ELSE /\ delta' = GoDiv(lastImage - thisImage, lastPage - thisPage)
                   /\ start' = thisImage - thisPage * delta'
                   /\ guesses' = [p \in GuessPages |->
                                    IF p \in GuessedPages
                                    THEN Sprintf_pathFmt(relPathFmt, start' + delta' * p)
                                    ELSE <<>>]
                   /\ pgPc' = [p \in GuessPages |->
                                    IF p \in GuessedPages THEN "guessGet" ELSE pgPc[p]]
                   /\ hcPc' = "wait"
                   /\ UNCHANGED crawlerExit
    /\ UNCHANGED <<shouldGuess, statusVerb, pagesLen, selected, namePrefix,
                   thisImageName, lastImageName, docFetches, guessStatus, saved,
                   pageEnds, imgFetches, dropped>>
    /\ UNCHANGED guessFrame

\* handlePage: GetHTML(page.url); an error is fatal; else GetImage reads
\* the URL of the image from the document and OnPageEnd is deferred
MR_handlePage_GetHTML(p, ok, id) ==
    /\ CrawlerRunning /\ pgPc[p] = "pageDoc"
    /\ docFetches' = [docFetches EXCEPT ![p] = @ + 1]
    /\ IF ok
       THEN /\ pgPc' = [pgPc EXCEPT ![p] = "imageGet"]
            /\ lastImageName' = IF hcPc = "calibrate" /\ p = LastOther
                                THEN ImageName(namePrefix, id) ELSE lastImageName
            /\ UNCHANGED <<hcPc, saved, pageEnds, crawlerExit>>
       ELSE Fatal
    /\ UNCHANGED <<shouldGuess, statusVerb, pagesLen, selected, namePrefix,
                   thisImageName, guessStatus, calibrated, divisor, delta, start,
                   guesses, imgFetches, dropped>>
    /\ UNCHANGED guessFrame

\* handleImage: m.client.Get(img.url).  The goroutine of the selected page
\* drops the error handleImage returns; handlePage makes it fatal.
MR_handleImage_Get(p, status) ==
    /\ CrawlerRunning /\ pgPc[p] = "imageGet"
    /\ IF status = 200
       THEN /\ pgPc' = [pgPc EXCEPT ![p] = "imageSave"]
            /\ UNCHANGED <<hcPc, saved, pageEnds, lastImageName, crawlerExit, dropped>>
       ELSE IF p = selected
            THEN /\ pgPc' = [pgPc EXCEPT ![p] = "done"]
                 /\ dropped' = TRUE
                 /\ UNCHANGED <<hcPc, saved, pageEnds, lastImageName, crawlerExit>>
            ELSE Fatal /\ UNCHANGED dropped
    /\ imgFetches' = [imgFetches EXCEPT ![p] = @ + 1]
    /\ UNCHANGED <<shouldGuess, statusVerb, pagesLen, selected, namePrefix, thisImageName,
                   docFetches, guessStatus, calibrated, divisor, delta, start, guesses>>
    /\ UNCHANGED guessFrame

\* handleImage: Save and io.Copy; back in handlePage the deferred OnPageEnd
\* runs when handlePage returns
MR_handleImage_Save(p, ok) ==
    /\ CrawlerRunning /\ pgPc[p] = "imageSave"
    /\ IF ok
       THEN /\ saved' = [saved EXCEPT ![p] = @ + 1]
            /\ pageEnds' = IF p = selected THEN pageEnds
                           ELSE [pageEnds EXCEPT ![p] = @ + 1]
            /\ pgPc' = [pgPc EXCEPT ![p] = "done"]
            /\ UNCHANGED <<hcPc, lastImageName, crawlerExit, dropped>>
       ELSE IF p = selected
            THEN /\ pgPc' = [pgPc EXCEPT ![p] = "done"]
                 /\ dropped' = TRUE
                 /\ UNCHANGED <<hcPc, saved, pageEnds, lastImageName, crawlerExit>>
            ELSE Fatal /\ UNCHANGED dropped
    /\ UNCHANGED <<shouldGuess, statusVerb, pagesLen, selected, namePrefix,
                   thisImageName, docFetches, guessStatus, calibrated, divisor, delta,
                   start, guesses, imgFetches>>
    /\ UNCHANGED guessFrame

\* the goroutine of a guess: handleImage(img) asks for the guessed URL; on
\* an error whose text starts with "GET" and ends with "404" it calls
\* handlePage(page), on any other error log.Fatal
MR_guess_Get(p, status) ==
    /\ CrawlerRunning /\ pgPc[p] = "guessGet"
    /\ guessStatus' = [guessStatus EXCEPT ![p] = status]
    /\ IF status = 200
       THEN /\ pgPc' = [pgPc EXCEPT ![p] = "guessSave"]
            /\ UNCHANGED <<hcPc, saved, pageEnds, lastImageName, crawlerExit>>
       ELSE IF IsNotFound(GetErrorText(statusVerb, guesses[p], status))
            THEN /\ pgPc' = [pgPc EXCEPT ![p] = "pageDoc"]
                 /\ UNCHANGED <<hcPc, saved, pageEnds, lastImageName, crawlerExit>>
            ELSE Fatal
    /\ imgFetches' = [imgFetches EXCEPT ![p] = @ + 1]
    /\ UNCHANGED <<shouldGuess, statusVerb, pagesLen, selected, namePrefix,
                   thisImageName, docFetches, calibrated, divisor, delta, start,
                   guesses, dropped>>
    /\ UNCHANGED guessFrame

\* the goroutine of a guess: Save and io.Copy of handleImage, then
\* OnPageEnd(img.info); their errors are not "GET ... 404": log.Fatal
MR_guess_Save(p, ok) ==
    /\ CrawlerRunning /\ pgPc[p] = "guessSave"
    /\ IF ok
       THEN /\ saved' = [saved EXCEPT ![p] = @ + 1]
            /\ pageEnds' = [pageEnds EXCEPT ![p] = @ + 1]
            /\ pgPc' = [pgPc EXCEPT ![p] = "done"]
            /\ UNCHANGED <<hcPc, lastImageName, crawlerExit>>
       ELSE Fatal
    /\ UNCHANGED <<shouldGuess, statusVerb, pagesLen, selected, namePrefix,
                   thisImageName, docFetches, guessStatus, calibrated, divisor, delta,
                   start, guesses, imgFetches, dropped>>
    /\ UNCHANGED guessFrame

\* handleChapter: wg.Wait() returns, then OnPageEnd(thisPage[0].info) and
\* OnChapterEnd(thisPage[0].info)
MR_handleChapter_End ==
    /\ CrawlerRunning /\ hcPc = "wait"
    /\ \A p \in MenuPages : pgPc[p] = "done"
    /\ pageEnds' = [pageEnds EXCEPT ![selected] = @ + 1]
    /\ hcPc' = "returned"
    /\ UNCHANGED <<shouldGuess, statusVerb, pagesLen, selected, namePrefix,
                   thisImageName, lastImageName, pgPc, docFetches, guessStatus, saved,
                   calibrated, divisor, delta, start, guesses, crawlerExit, imgFetches,
                   dropped>>
    /\ UNCHANGED guessFrame

\* a crawler with either value of the field, built with either Get, called
\* on a document of a chapter of the site
GuessInit ==
    /\ NewFetcher(MaxConnections)
    /\ GetsIdle
    /\ CrawlIdle
    /\ NewProgressBar
    /\ LiveIdle
    /\ ClientIdle
    /\ BodyIdle
    /\ RuleIdle
    /\ HandleIdle
    /\ PredictIdle
    /\ WriterIdle
    /\ GradientIdle
    /\ CopyIdle
    /\ UpdateIdle
    /\ shouldGuess \in BOOLEAN
    /\ statusVerb \in {"%s", "%d"}
    /\ pagesLen \in GuessPages
    /\ selected \in 1..pagesLen
    /\ namePrefix \in NamePrefixes
    /\ thisImageName = <<>>
    /\ lastImageName = <<>>
    /\ hcPc = "idle"
    /\ pgPc = [p \in GuessPages |-> "idle"]
    /\ docFetches = [p \in GuessPages |-> 0]
    /\ imgFetches = [p \in GuessPages |-> 0]
    /\ dropped = FALSE
    /\ guessStatus = [p \in GuessPages |-> 0]
    /\ saved = [p \in GuessPages |-> 0]
    /\ pageEnds = [p \in GuessPages |-> 0]
    /\ calibrated = FALSE
    /\ divisor = 0
    /\ delta = 0
    /\ start = 0
    /\ guesses = [p \in GuessPages |-> <<>>]
    /\ crawlerExit = "running"

GuessNext ==
    \/ \E id \in ImageIds : MR_handleChapter_GetPages(id)
    \/ MR_handleChapter_Pages
    \/ MR_guessImages_SinglePage
    \/ MR_guessImages_HandlePage
    \/ MR_guessImages_Compute
    \/ \E p \in MenuPages, ok \in BOOLEAN, id \in ImageIds : MR_handlePage_GetHTML(p, ok, id)
    \/ \E p \in MenuPages, status \in StatusCodes : MR_handleImage_Get(p, status)
    \/ \E p \in MenuPages, ok \in BOOLEAN : MR_handleImage_Save(p, ok)
    \/ \E p \in MenuPages, status \in StatusCodes : MR_guess_Get(p, status)
    \/ \E p \in MenuPages, ok \in BOOLEAN : MR_guess_Save(p, ok)
    \/ MR_handleChapter_End

GuessSpec == GuessInit /\ [][GuessNext]_vars

PageA == Min({selected, LastOther})
PageB == Max({selected, LastOther})
CalibrationName(page) == IF page = selected THEN thisImageName ELSE lastImageName

\* C24: once guessImages has computed, with (pageA, idA) and (pageB, idB)
\* the two images it was given, pageA < pageB: delta is the quotient of
\* idB - idA by pageB - pageA truncated toward zero (the remainder is
\* smaller than the divisor and has the sign of the dividend), start is
\* idA - pageA * delta, and the name guessed for every other page p is the
\* name of the site with the number start + delta * p, prefix and suffix as
\* in the calibration images; (1, 100) and (10, 1000) give 100, 0 and 500
C24_PredictorArithmetic ==
    /\ (calibrated /\ CrawlerRunning) =>
          \E idA \in ImageIds, idB \in ImageIds :
             /\ PageA < PageB
             /\ CalibrationName(PageA) = ImageName(namePrefix, idA)
             /\ CalibrationName(PageB) = ImageName(namePrefix, idB)
             /\ divisor = PageB - PageA
             /\ LET r == (idB - idA) - delta * divisor
                IN  /\ Abs(r) < divisor
                    /\ r # 0 => ((r > 0) = (idB - idA > 0))
             /\ start = idA - PageA * delta
             /\ \A p \in GuessPages :
                   guesses[p] =
                       IF p \in GuessedPages
                       THEN namePrefix \o <<"-">> \o FormatSigned(start + delta * p)
                               \o <<".", "jpg">>
                       ELSE <<>>
    /\ LET d == GoDiv(1000 - 100, 10 - 1)
           s == 100 - 1 * d
           f == parseImageNumber(ImageName(<<"naruto">>, 100))
       IN  /\ d = 100 /\ s = 0 /\ s + d * 5 = 500 /\ f.number = 100
           /\ Sprintf_pathFmt(f.pathFmt, s + d * 5) =
                 <<"naruto", "-", "5", "0", "0", ".", "jpg">>

\* C24 witness: a calibration two pages apart whose numbers decrease by an
\* amount the divisor does not divide, and a guess made from it
C24_Witness ==
    /\ calibrated /\ CrawlerRunning
    /\ divisor = 2 /\ delta = -1
    /\ \E p \in GuessedPages : guesses[p] # <<>>

\* C25: for a chapter whose menu has one page no page document is fetched,
\* no guess is made and guessImages computes nothing; and whenever
\* guessImages has computed, it divided by a difference of two distinct
\* pages: the divisor is not zero and no division panicked
C25_SinglePageBypass ==
    /\ pagesLen = 1 =>
          /\ ~calibrated
          /\ \A p \in GuessPages :
                docFetches[p] = 0 /\ guesses[p] = <<>> /\ guessStatus[p] = 0
    /\ calibrated => (divisor # 0 /\ PageA # PageB)
    /\ crawlerExit # "2"

\* C25 witness: a chapter of one page has been handled to its end by a
\* crawler that guesses
C25_Witness ==
    /\ shouldGuess /\ pagesLen = 1
    /\ hcPc = "returned" /\ saved[selected] = 1 /\ pageEnds[selected] = 1

MetaKeys == {"manga", "chapter", "genres"}
\* values of a Metadata: strings, and a slice of strings as under "genres"
MetaValues == {<<"a">>, <<"a", "b">>}
Metadatas == UNION {[ks -> MetaValues] : ks \in SUBSET MetaKeys}

\* an assignment that leaves a key the map already holds as it is
MapKeepOld(m, k, v) ==
    [x \in DOMAIN m \cup {k} |-> IF x \in DOMAIN m THEN m[x] ELSE v]

\* m[k] = v on a Go map
MapAssign(m, k, v) ==
    [x \in DOMAIN m \cup {k} |-> IF x = k THEN v ELSE m[x]]

\* one iteration of the range loop
Update_Range(k) ==
    /\ updPc = "range" /\ k \in updTodo
    /\ updM' = MapAssign(updM, k, updOther[k])
    /\ updTodo' = updTodo \ {k}
    /\ UNCHANGED <<updPc, updOther, updM0, updOther0>>
    /\ UNCHANGED updateFrame

\* the loop has ranged over every key of other
Update_Return ==
    /\ updPc = "range" /\ updTodo = {}
    /\ updPc' = "returned"
    /\ UNCHANGED <<updM, updOther, updM0, updOther0, updTodo>>
    /\ UNCHANGED updateFrame

\* m.Update(other) is called on two maps
UpdateInit ==
    /\ NewFetcher(MaxConnections)
    /\ GetsIdle
    /\ CrawlIdle
    /\ NewProgressBar
    /\ LiveIdle
    /\ ClientIdle
    /\ BodyIdle
    /\ RuleIdle
    /\ HandleIdle
    /\ PredictIdle
    /\ WriterIdle
    /\ GradientIdle
    /\ CopyIdle
    /\ GuessIdle
    /\ updPc = "range"
    /\ updM \in Metadatas
    /\ updOther \in Metadatas
    /\ updM0 = updM
    /\ updOther0 = updOther
    /\ updTodo = DOMAIN updOther

UpdateNext ==
    \/ \E k \in MetaKeys : Update_Range(k)
    \/ Update_Return

UpdateSpec == UpdateInit /\ [][UpdateNext]_vars

\* C26: when A.Update(B) has returned, A holds B's value under every key of
\* B (the whole value, nothing of A's old value under that key), its own
\* old value under every other key it had, and no further key; B is as it
\* was at the call
C26_UpdateRightBiased ==
    updPc = "returned" =>
        /\ \A k \in DOMAIN updOther0 : updM[k] = updOther0[k]
        /\ \A k \in DOMAIN updM0 \ DOMAIN updOther0 : updM[k] = updM0[k]
        /\ DOMAIN updM = DOMAIN updM0 \cup DOMAIN updOther0
        /\ updOther = updOther0
        /\ updM = Update(updM0, updOther0)

\* C26 witness: Update has returned for maps with a key only in A, a key
\* only in B, and a key in both under which the values differed
C26_Witness ==
    /\ updPc = "returned"
    /\ DOMAIN updM0 \ DOMAIN updOther0 # {}
    /\ DOMAIN updOther0 \ DOMAIN updM0 # {}
    /\ \E k \in DOMAIN updM0 \cap DOMAIN updOther0 : updM0[k] # updOther0[k]

(***************************************************************************)
(* Copy(ctx, dst, src) on its own: io.Copy over a reader whose Read first  *)
(* looks at ctx.Done() and then calls src.Read; the token is cancelled by  *)
(* another goroutine, at any moment                                        *)
(***************************************************************************)
CtxErr == [type |-> "context.Canceled"]
ReadErr == [type |-> "read error"]
WriteErr == [type |-> "write error"]

\* cancel() of the context, called by another goroutine during the copy
Copy_Cancel ==
    /\ cpPc \in {"select", "read", "write"} /\ ~cpDone
    /\ cpDone' = TRUE
    /\ UNCHANGED <<cpPc, srcLen, srcPos, cpBuf, dstLen, cpErr, lateReads>>
    /\ UNCHANGED copyFrame

\* a wrapped Read that goes to src.Read without looking at the token
Copy_NoSelect ==
    /\ cpPc = "select"
    /\ cpPc' = "read"
    /\ UNCHANGED <<cpDone, srcLen, srcPos, cpBuf, dstLen, cpErr, lateReads>>
    /\ UNCHANGED copyFrame

\* the wrapped Read: "select { case <-ctx.Done(): return 0, ctx.Err()";
\* io.Copy gets no bytes and an error other than EOF, and returns it;
\* "default:" goes on to src.Read
Copy_Select ==
    /\ cpPc = "select"
    /\ IF cpDone
       THEN /\ cpPc' = "returned"
            /\ cpErr' = CtxErr
       ELSE /\ cpPc' = "read"
            /\ UNCHANGED cpErr
    /\ UNCHANGED <<cpDone, srcLen, srcPos, cpBuf, dstLen, lateReads>>
    /\ UNCHANGED copyFrame

\* the wrapped Read, default case: "return src.Read(p)": a chunk, or EOF at
\* the end of the source (io.Copy returns nil), or an error of the source
Copy_Read(ok) ==
    /\ cpPc = "read"
    /\ lateReads' = IF cpDone THEN lateReads + 1 ELSE lateReads
    /\ IF ~ok
       THEN /\ cpPc' = "returned"
            /\ cpErr' = ReadErr
            /\ UNCHANGED <<srcPos, cpBuf>>
       ELSE IF srcPos < srcLen
            THEN /\ srcPos' = srcPos + 1
                 /\ cpBuf' = 1
                 /\ cpPc' = "write"
                 /\ UNCHANGED cpErr
            ELSE /\ cpPc' = "returned"
                 /\ UNCHANGED <<srcPos, cpBuf, cpErr>>
    /\ UNCHANGED <<cpDone, srcLen, dstLen>>
    /\ UNCHANGED copyFrame

\* io.Copy: dst.Write(buf[0:nr]), then the next Read; a write error ends the copy
Copy_Write(ok) ==
    /\ cpPc = "write"
    /\ IF ok
       THEN /\ dstLen' = dstLen + cpBuf
            /\ cpBuf' = 0
            /\ cpPc' = "select"
            /\ UNCHANGED cpErr
       ELSE /\ cpPc' = "returned"
            /\ cpErr' = WriteErr
            /\ UNCHANGED <<dstLen, cpBuf>>
    /\ UNCHANGED <<cpDone, srcLen, srcPos, lateReads>>
    /\ UNCHANGED copyFrame

\* Copy is called on a source of some length, with a token not yet cancelled
\* or cancelled before the call
CopyInit ==
    /\ NewFetcher(MaxConnections)
    /\ GetsIdle
    /\ CrawlIdle
    /\ NewProgressBar
    /\ LiveIdle
    /\ ClientIdle
    /\ BodyIdle
    /\ RuleIdle
    /\ HandleIdle
    /\ PredictIdle
    /\ WriterIdle
    /\ GradientIdle
    /\ GuessIdle
    /\ UpdateIdle
    /\ cpPc = "select"
    /\ cpDone \in BOOLEAN
    /\ srcLen \in 0..MaxSrcLen
    /\ srcPos = 0
    /\ cpBuf = 0
    /\ dstLen = 0
    /\ cpErr = NilError
    /\ lateReads = 0

CopyNext ==
    \/ Copy_Cancel
    \/ Copy_Select
    \/ \E ok \in BOOLEAN : Copy_Read(ok)
    \/ \E ok \in BOOLEAN : Copy_Write(ok)

CopySpec == CopyInit /\ [][CopyNext]_vars

(***************************************************************************)
(* Claims about Copy (checked under CopySpec)                              *)
(***************************************************************************)
\* C27 (the claim as stated): no src.Read is made once the token is
\* cancelled, and a Copy whose token was cancelled returns the cancellation
\* error with everything it read written; without cancellation the whole
\* source is copied unless the source or the destination fails
C27_NoReadOnceCancelled ==
    /\ lateReads = 0
    /\ (cpPc = "returned" /\ cpDone) => (cpErr = CtxErr /\ dstLen = srcPos)
    /\ (cpPc = "returned" /\ ~cpDone /\ cpErr = NilError) => dstLen = srcLen

\* C27 (amended): the token is looked at before every src.Read, not during
\* it: at most one src.Read, the one whose check had passed, is made after
\* the cancellation; a check that finds the token cancelled reads nothing
\* and makes Copy return the cancellation error; a Copy that returns the
\* cancellation error has written every chunk it read; and a Copy that
\* returns nil has copied the whole source
C27_NoReadAfterCheck ==
    /\ [](/\ lateReads <= 1
          /\ (cpPc = "returned" /\ cpErr = CtxErr) => (cpDone /\ dstLen = srcPos /\ cpBuf = 0)
          /\ (cpPc = "returned" /\ cpErr = NilError) => (dstLen = srcLen /\ srcPos = srcLen)
          /\ dstLen + cpBuf = srcPos \/ (cpPc = "returned" /\ cpErr = WriteErr))
    /\ [][/\ (cpDone /\ cpPc = "select" /\ cpPc' # "select") =>
                (cpPc' = "returned" /\ cpErr' = CtxErr /\ srcPos' = srcPos
                    /\ lateReads' = lateReads)
          /\ (cpDone /\ srcPos' # srcPos) => (cpPc = "read" /\ lateReads = 0)
          /\ cpPc = "returned" => srcPos' = srcPos]_vars

\* C27 witness: the token was cancelled in the middle of a copy, after a
\* chunk had been written and while src.Read was about to be called; that
\* read was made and written, and Copy returned the cancellation error
C27_Witness ==
    /\ cpPc = "returned" /\ cpErr = CtxErr
    /\ lateReads = 1
    /\ dstLen >= 2 /\ dstLen < srcLen

(***************************************************************************)
(* Claims about the exit status (checked under CrawlSpec)                  *)
(***************************************************************************)
\* page tasks whose handleImage returned an error in this run
FailedTasks == {t \in Tasks : imgPc[t] = "failed"}

\* C28 (the claim as stated): main returns, the process ending with status
\* 0, only from a state in which no fetch, save or copy of the run has
\* failed and every chapter that was not skipped has its permanent
\* container with all of its pages
C28_FailureExitsNonZero ==
    [][(Alive /\ exitStatus' = "0") =>
          /\ FailedTasks = {}
          /\ \A ch \in Chapters :
                chPc[ch] = "done" => (PermanentExists(ch) /\ ContainerComplete(ch))]_vars

(***************************************************************************)
(* LinearGradient.At and blend (gradient.go) on their own.  The fraction t *)
(* is tNum / tDen, as run computes sofar / total; a uint32 is kept as its  *)
(* two 16-bit halves so that every product and difference wraps at 32      *)
(* bits.                                                                   *)
(***************************************************************************)
Half == 65536

RGBA(r, g, b) == [r |-> r, g |-> g, b |-> b, a |-> 255]

\* the gradient NewProgressBar builds, the same backwards, and one of two stops
Gradients ==
    {<<RGBA(192, 3, 20), RGBA(255, 255, 0), RGBA(3, 192, 20)>>,
     <<RGBA(3, 192, 20), RGBA(255, 255, 0), RGBA(192, 3, 20)>>,
     <<RGBA(0, 0, 0), RGBA(255, 255, 255)>>}

\* a uint32 from a number below 2^31
U32(n) == [hi |-> n \div Half, lo |-> n % Half]

\* color.RGBA.RGBA(): an 8-bit component c of an opaque colour as 16 bits
RGBA16(c) == U32(c * 257)

\* the 32-bit product of two 16-bit numbers
Mul16(a, b) ==
    LET p0 == (a % 256) * b
        p1 == (a \div 256) * b
        s == p0 + (p1 % 256) * 256
    IN  [hi |-> s \div Half + p1 \div 256, lo |-> s % Half]

\* a subtraction that stops at zero
SubClamped(y, x) ==
    IF y.hi < x.hi \/ (y.hi = x.hi /\ y.lo < x.lo) THEN U32(0)
    ELSE LET l == y.lo - x.lo
         IN  [hi |-> (y.hi - x.hi - (IF l < 0 THEN 1 ELSE 0)),
              lo |-> (l + Half) % Half]

\* y - x on uint32: modulo 2^32
Sub32(y, x) ==
    LET l == y.lo - x.lo
    IN  [hi |-> (y.hi - x.hi - (IF l < 0 THEN 1 ELSE 0) + Half) % Half,
         lo |-> (l + Half) % Half]

\* a * b on uint32: the low 32 bits of the product
Mul32(a, b) ==
    LET p == Mul16(a.lo, b.lo)
        cross == (Mul16(a.hi, b.lo).lo + Mul16(a.lo, b.hi).lo) % Half
    IN  [hi |-> (p.hi + cross) % Half, lo |-> p.lo]

\* a + b on uint32: modulo 2^32
Add32(a, b) ==
    LET l == a.lo + b.lo
    IN  [hi |-> (a.hi + b.hi + l \div Half) % Half, lo |-> l % Half]

\* x >> 16 on uint32
Shr16(x) == [hi |-> 0, lo |-> x.hi]

\* uint8(x >> 8): bits 8 to 15
Uint8Shr8(x) == x.lo \div 256

\* blend, one component: x + (w * (y - x) >> 16), then uint8(. >> 8)
blend1(x, y, w) ==
    Uint8Shr8(Add32(RGBA16(x), Shr16(Mul32(w, Sub32(RGBA16(y), RGBA16(x))))))

\* blend(x, y, t) for t = num / den in [0, 1]: w := uint32(0xffff * t)
blend(x, y, num, den) ==
    LET w == U32((65535 * num) \div den)
    IN  [r |-> blend1(x.r, y.r, w), g |-> blend1(x.g, y.g, w),
         b |-> blend1(x.b, y.b, w), a |-> 255]

\* At: sort.Search(len(lg), func(i) { return float64(i)/N >= t }), the
\* smallest index (from 0) for which the test holds, len(lg) if there is
\* none; N = len(lg) - 1 and t = tNum / tDen
At_Search ==
    /\ atPc = "search"
    /\ LET N == Len(lg) - 1
           hits == {i \in 0..N : i * tDen >= tNum * N}
       IN  atI' = IF hits = {} THEN Len(lg) ELSE Min(hits)
    /\ atPc' = "switch"
    /\ UNCHANGED <<lg, tNum, tDen, atColor>>
    /\ UNCHANGED gradientFrame

\* At: "case 0: return lg[0]" and "case len(lg): return lg[i-1]"
At_Outside ==
    /\ atPc = "switch" /\ atI \in {0, Len(lg)}
    /\ atColor' = IF atI = 0 THEN lg[1] ELSE lg[Len(lg)]
    /\ atPc' = "returned"
    /\ UNCHANGED <<lg, tNum, tDen, atI>>
    /\ UNCHANGED gradientFrame

\* At: colorA := lg[i-1]; colorB := lg[i]; t = N*t - float64(i) + 1;
\* return blend(colorA, colorB, t)
At_Blend ==
    /\ atPc = "switch" /\ atI \notin {0, Len(lg)}
    /\ LET N == Len(lg) - 1
       IN  atColor' = blend(lg[atI], lg[atI + 1], N * tNum - atI * tDen + tDen, tDen)
    /\ atPc' = "returned"
    /\ UNCHANGED <<lg, tNum, tDen, atI>>
    /\ UNCHANGED gradientFrame

\* At is called with a fraction tNum / tDen between 0 and 1
GradientInit ==
    /\ NewFetcher(MaxConnections)
    /\ GetsIdle
    /\ CrawlIdle
    /\ NewProgressBar
    /\ LiveIdle
    /\ ClientIdle
    /\ BodyIdle
    /\ RuleIdle
    /\ HandleIdle
    /\ PredictIdle
    /\ WriterIdle
    /\ GuessIdle
    /\ UpdateIdle
    /\ CopyIdle
    /\ atPc = "search"
    /\ lg \in Gradients
    /\ tDen \in 1..MaxTotal
    /\ tNum \in 0..tDen
    /\ atI = 0
    /\ atColor = <<>>

GradientNext ==
    \/ At_Search
    \/ At_Outside
    \/ At_Blend

GradientSpec == GradientInit /\ [][GradientNext]_vars

(***************************************************************************)
(* Claims about the gradient (checked under GradientSpec)                  *)
(***************************************************************************)
\* the segment of the gradient the fraction tNum / tDen lies in, from 1:
\* between the stops Segment and Segment + 1
Segment ==
    LET N == Len(lg) - 1
    IN  Min({k \in 1..N : tNum * N <= k * tDen})

\* c lies within one unit of x + (num / den) * (y - x), between x and y
Interpolates(c, x, y, num, den) ==
    /\ Abs(c * den - (x * den + num * (y - x))) <= den
    /\ c >= Min({x, y}) /\ c <= Max({x, y})

\* C29: At returns the first stop for the fraction 0 and the last stop for
\* the fraction 1, unchanged in every component; for a fraction inside a
\* segment it returns, in every component, the value on the straight line
\* between the two stops of the segment (to one unit of the 8-bit
\* component, whether the component grows or shrinks along the segment),
\* opaque; a fraction on a stop gives that stop
C29_GradientInterpolates ==
    atPc = "returned" =>
        /\ tNum = 0 => atColor = lg[1]
        /\ tNum = tDen => atColor = lg[Len(lg)]
        /\ (tNum > 0) =>
              LET N == Len(lg) - 1
                  x == lg[Segment]
                  y == lg[Segment + 1]
                  num == N * tNum - (Segment - 1) * tDen
              IN  /\ Interpolates(atColor.r, x.r, y.r, num, tDen)
                  /\ Interpolates(atColor.g, x.g, y.g, num, tDen)
                  /\ Interpolates(atColor.b, x.b, y.b, num, tDen)
                  /\ atColor.a = 255
                  /\ num = tDen => atColor = y

\* C29 witness: At has blended inside the second segment of the gradient
\* of the progress bar, where red shrinks from 255 and blue grows from 0,
\* and returned a colour strictly between the two stops
C29_Witness ==
    /\ atPc = "returned"
    /\ lg = <<RGBA(192, 3, 20), RGBA(255, 255, 0), RGBA(3, 192, 20)>>
    /\ 2 * tNum > tDen /\ tNum < tDen
    /\ atColor.r > 3 /\ atColor.r < 255
    /\ atColor.b > 0 /\ atColor.b < 20

(***************************************************************************)
(* Claims about the order of the names (checked under CrawlSpec)           *)
(***************************************************************************)
\* tasks for which Save has built the names of container and leaf
Named == {t \in Tasks : imgPc[t] \in {"copy", "pageEnd", "done"}}

\* n written in decimal with zeros in front, as wide as count is
Padded(n, count) == PadZero(Len(Itoa(count)), Itoa(n))

\* C30 (the claim as stated): the leaf name Save builds for page p of a
\* chapter is p zero-padded to the width of the page count, with the
\* extension of the image, and the container name holds the chapter
\* zero-padded to the width of the chapter count; so of two pages of one
\* chapter the one with the smaller index has the leaf name that sorts
\* first, and of two chapters the one with the smaller index has the
\* container name that sorts first
C30_PaddedNamesSorted ==
    \A t1 \in Named, t2 \in Named :
        /\ LeafName(ImageInfo(t1)) = Padded(t1[2], numPages) \o <<".", "jpg">>
        /\ (t1[1] = t2[1] /\ t1[2] < t2[2]) =>
              LexLess(LeafName(ImageInfo(t1)), LeafName(ImageInfo(t2)))
        /\ t1[1] < t2[1] =>
              LexLess(ContainerName(ImageInfo(t1)), ContainerName(ImageInfo(t2)))

(***************************************************************************)
(* One sink of Save on its own: StartTask, the ProgressWriter around the   *)
(* file, and what run receives from it.  A Write hands the file a buffer   *)
(* of 2 bytes, of which the file takes 0, 1 or 2, with or without error.   *)
(***************************************************************************)
Counts == 0..2

\* Save: s.progressBar.StartTask(size) receives nextPlace from run, which
\* increments it, and goes on to TickTask(newTask, 0)
PW_StartTask(size) ==
    /\ pwPc = "idle"
    /\ pwTask' = [place |-> pwNextPlace, sofar |-> 0, total |-> size]
    /\ pwNextPlace' = pwNextPlace + 1
    /\ pwSend' = [place |-> pwNextPlace, sofar |-> 0, total |-> size]
    /\ pwPc' = "tickCh"
    /\ UNCHANGED <<pwProgress, pwFile, pwTicks, pwFailed>>
    /\ UNCHANGED writerFrame

\* run: "case self.startCh <- nextPlace: nextPlace++" for another download
PW_OtherStart ==
    /\ pwNextPlace <= MaxWrites
    /\ pwNextPlace' = pwNextPlace + 1
    /\ UNCHANGED <<pwPc, pwTask, pwProgress, pwFile, pwSend, pwTicks, pwFailed>>
    /\ UNCHANGED writerFrame

\* run: "case task := <-self.tickCh" takes what TickTask sends
PW_Tick ==
    /\ pwPc = "tickCh"
    /\ pwTicks' = Append(pwTicks, pwSend)
    /\ pwPc' = "copy"
    /\ UNCHANGED <<pwTask, pwProgress, pwFile, pwSend, pwNextPlace, pwFailed>>
    /\ UNCHANGED writerFrame

\* a Write that reports the bytes of this call only
PW_WriteDelta(count, ok) ==
    /\ pwPc = "copy" /\ ~pwFailed /\ Len(pwTicks) <= MaxWrites
    /\ pwFile' = pwFile + count
    /\ pwProgress' = count
    /\ pwSend' = [pwTask EXCEPT !.sofar = count]
    /\ pwFailed' = ~ok
    /\ pwPc' = "tickCh"
    /\ UNCHANGED <<pwTask, pwTicks, pwNextPlace>>
    /\ UNCHANGED writerFrame

\* ProgressWriter.Write: count, err := p.Writer.Write(buf); p.progress +=
\* count; p.Callback(p.progress, p.Size), which is TickTask(task, prog):
\* info.sofar = sofar; self.tickCh <- info
PW_Write(count, ok) ==
    /\ pwPc = "copy" /\ ~pwFailed /\ Len(pwTicks) <= MaxWrites
    /\ ok => count = 2
    /\ pwFile' = pwFile + count
    /\ pwProgress' = pwProgress + count
    /\ pwSend' = [pwTask EXCEPT !.sofar = pwProgress + count]
    /\ pwFailed' = ~ok
    /\ pwPc' = "tickCh"
    /\ UNCHANGED <<pwTask, pwTicks, pwNextPlace>>
    /\ UNCHANGED writerFrame

\* ProgressWriter.Close, when io.Copy is over
PW_Close ==
    /\ pwPc = "copy"
    /\ pwPc' = "closed"
    /\ UNCHANGED <<pwTask, pwProgress, pwFile, pwSend, pwTicks, pwNextPlace, pwFailed>>
    /\ UNCHANGED writerFrame

WriterInit ==
    /\ NewFetcher(MaxConnections)
    /\ GetsIdle
    /\ CrawlIdle
    /\ NewProgressBar
    /\ LiveIdle
    /\ ClientIdle
    /\ BodyIdle
    /\ RuleIdle
    /\ HandleIdle
    /\ PredictIdle
    /\ GuessIdle
    /\ UpdateIdle
    /\ CopyIdle
    /\ GradientIdle
    /\ WriterIdle

WriterNext ==
    \/ \E size \in {-1, 7} : PW_StartTask(size)
    \/ PW_OtherStart
    \/ PW_Tick
    \/ \E count \in Counts, ok \in BOOLEAN : PW_Write(count, ok)
    \/ PW_Close

WriterSpec == WriterInit /\ [][WriterNext]_vars

(***************************************************************************)
(* Claims about the sink of Save (checked under WriterSpec)                *)
(***************************************************************************)
\* C31: every progress value the sink sends and every one run has received
\* from it carries the place StartTask was given; the value being sent is
\* the number of bytes the file has received so far; the values received
\* never decrease; and once the last one is received it equals the number
\* of bytes written to the file
C31_CumulativeTicks ==
    /\ pwPc = "tickCh" => pwSend.place = pwTask.place /\ pwSend.sofar = pwFile
    /\ \A i \in 1..Len(pwTicks) : pwTicks[i].place = pwTask.place
    /\ \A i \in 1..Len(pwTicks) - 1 : pwTicks[i].sofar <= pwTicks[i + 1].sofar
    /\ pwPc \in {"copy", "closed"} => pwTicks[Len(pwTicks)].sofar = pwFile

\* C31 witness: the sink is closed after three writes, one of them short,
\* that moved 5 bytes; run has received 0, then three growing values, the
\* last one 5, while other downloads were given places in between
C31_Witness ==
    /\ pwPc = "closed"
    /\ Len(pwTicks) = 4
    /\ pwFile = 5 /\ pwFailed
    /\ pwTicks[1].sofar = 0 /\ pwTicks[4].sofar = 5
    /\ pwNextPlace > pwTask.place + 1

(***************************************************************************)
(* The arithmetic of guessImages on its own: from two images with their    *)
(* pages to delta, start and the number guessed for a page.                *)
(***************************************************************************)
\* guessImages without "if thisPage > lastPage { swap }"
guessImages_NoSwap(this, last, page) ==
    LET dlt == GoDiv(last.id - this.id, last.page - this.page)
        strt == this.id - this.page * dlt
    IN  [delta |-> dlt, start |-> strt, id |-> strt + dlt * page]

\* guessImages with start taken as thisImage - delta, right for page 1
guessImages_FromPageOne(this, last, page) ==
    LET a == IF this.page > last.page THEN last ELSE this
        b == IF this.page > last.page THEN this ELSE last
        dlt == GoDiv(b.id - a.id, b.page - a.page)
        strt == a.id - dlt
    IN  [delta |-> dlt, start |-> strt, id |-> strt + dlt * page]

\* guessImages: the swap when thisPage > lastPage, then
\* delta := (lastImage - thisImage) / (lastPage - thisPage),
\* start := thisImage - thisPage*delta, and start+delta*page for the page
guessImages_Arithmetic(this, last, page) ==
    LET a == IF this.page > last.page THEN last ELSE this
        b == IF this.page > last.page THEN this ELSE last
        dlt == GoDiv(b.id - a.id, b.page - a.page)
        strt == a.id - a.page * dlt
    IN  [delta |-> dlt, start |-> strt, id |-> strt + dlt * page]

\* guessImages called with images[0] = prThis and the page of prLast last
\* in the list
Predict_Given ==
    /\ "given" \notin prDone
    /\ prGiven' = guessImages_Arithmetic(prThis, prLast, prPage)
    /\ prDone' = prDone \cup {"given"}
    /\ UNCHANGED <<prThis, prLast, prPage, prSwapped>>
    /\ UNCHANGED predictFrame

\* guessImages called with images[0] = prLast and the page of prThis last
\* in the list
Predict_Swapped ==
    /\ "swapped" \notin prDone
    /\ prSwapped' = guessImages_Arithmetic(prLast, prThis, prPage)
    /\ prDone' = prDone \cup {"swapped"}
    /\ UNCHANGED <<prThis, prLast, prPage, prGiven>>
    /\ UNCHANGED predictFrame

\* two images of different pages of a menu, with image numbers of the site
PredictInit ==
    /\ NewFetcher(MaxConnections)
    /\ GetsIdle
    /\ CrawlIdle
    /\ NewProgressBar
    /\ LiveIdle
    /\ ClientIdle
    /\ BodyIdle
    /\ RuleIdle
    /\ HandleIdle
    /\ GuessIdle
    /\ UpdateIdle
    /\ CopyIdle
    /\ GradientIdle
    /\ WriterIdle
    /\ prThis \in [page : GuessPages, id : ImageIds]
    /\ prLast \in [page : GuessPages, id : ImageIds]
    /\ prThis.page # prLast.page
    /\ prPage \in GuessPages
    /\ prGiven = [delta |-> 0, start |-> 0, id |-> 0]
    /\ prSwapped = [delta |-> 0, start |-> 0, id |-> 0]
    /\ prDone = {}

PredictNext ==
    \/ Predict_Given
    \/ Predict_Swapped

PredictSpec == PredictInit /\ [][PredictNext]_vars

(***************************************************************************)
(* Claims about the arithmetic of guessImages (checked under PredictSpec)  *)
(***************************************************************************)
\* C33: guessImages called with two images of different pages in one order
\* and in the other computes the same delta, the same start and the same
\* number for every page
C33_OrderIndependent ==
    prDone = {"given", "swapped"} => prGiven = prSwapped

\* C33 witness: both orders are computed for two images two pages apart
\* whose numbers differ by 3, which 2 does not divide, the later page given
\* first
C33_Witness ==
    /\ prDone = {"given", "swapped"}
    /\ prThis.page = prLast.page + 2
    /\ prThis.id = prLast.id + 3

\* the calibration points of the computation in the order of their pages
PointA == IF prThis.page < prLast.page THEN prThis ELSE prLast
PointB == IF prThis.page < prLast.page THEN prLast ELSE prThis

\* C40: with (pageA, idA) and (pageB, idB) the two images, pageA < pageB,
\* the number guessImages would guess for pageA is idA; the number for
\* pageB is idB when pageB - pageA divides idB - idA; and delta is not
\* negative when idB > idA
C40_ReproducesCalibration ==
    "given" \in prDone =>
        /\ prGiven.start + prGiven.delta * PointA.page = PointA.id
        /\ (PointB.id - PointA.id) % (PointB.page - PointA.page) = 0
              => prGiven.start + prGiven.delta * PointB.page = PointB.id
        /\ PointB.id > PointA.id => prGiven.delta >= 0

\* C40 witness: a computation from page 2 with number 1 and page 3 with
\* number 9: the step divides, delta is 8 and start is negative
C40_Witness ==
    /\ "given" \in prDone
    /\ PointA = [page |-> 2, id |-> 1] /\ PointB = [page |-> 3, id |-> 9]
    /\ prGiven.delta = 8 /\ prGiven.start = -15

(***************************************************************************)
(* Claims about the archive (checked under CrawlSpec)                      *)
(***************************************************************************)
\* chapters whose CBZSaver.OnChapterEnd has returned in this run
Archived == {ch \in Chapters : Alive /\ mode = "archive" /\ chapterEnded[ch] /\ chPc[ch] = "done"}

\* the entries of the archive of the chapter, in the order they were written
ArchiveEntries(ch) ==
    LET zip == files[fs[ContainerName(GetChapters(ch))].ino]
    IN  SelectSeq(zip, LAMBDA e : "name" \in DOMAIN e)

\* the names of the leaves this run has finalized for the chapter
FinalizedLeaves(ch) ==
    {LeafName(ImageInfo(t)) : t \in {t \in Tasks : t[1] = ch /\ finalized[t]}}

\* C34 (the claim as stated): when OnChapterEnd of the CBZSaver has
\* returned, the archive holds one entry for every leaf this run finalized
\* for the chapter and no other entry: the names of the entries are the
\* names of those leaves, each once, in lexical order, none ends in ".part";
\* the archive ends with its central directory; and the temporary container
\* is still there
C34_ArchiveOfFinalizedLeaves ==
    \A ch \in Archived :
        LET entries == ArchiveEntries(ch)
            zip == files[fs[ContainerName(GetChapters(ch))].ino]
        IN  /\ {entries[i].name : i \in 1..Len(entries)} = FinalizedLeaves(ch)
            /\ \A i \in 1..Len(entries) - 1 : LexLess(entries[i].name, entries[i + 1].name)
            /\ \A i \in 1..Len(entries) :
                  entries[i].name[Len(entries[i].name)] # ".part"
            /\ zip = entries \o <<CentralDirectory>>
            /\ isDir(fs, TmpContainer(GetChapters(ch)))

(***************************************************************************)
(* Handle of the MangaReader, MangaEden and MangaStreamer crawlers on its  *)
(* own, with handleManga and the start of handleChapter.  The path of a    *)
(* URL is the sequence of its segments: "/a/b" is <<"a", "b">> and a       *)
(* slash at the end leaves an empty last segment.                          *)
(***************************************************************************)
Sites == {"mangareader", "mangaeden", "mangastream"}
UrlForms == {"root", "manga", "chapter", "chapter/", "page", "page/"}
ListedChapters == 1..NumChapters

\* strings.TrimRight(p, "/")
RECURSIVE TrimRightSlash(_)
TrimRightSlash(p) ==
    IF p # <<>> /\ p[Len(p)] = "" THEN TrimRightSlash(SubSeq(p, 1, Len(p) - 1)) ELSE p

\* strings.Count(p, "/")
CountSlash(p) == Len(p)

\* path.Dir of a path without a slash at the end
PathDir(p) == SubSeq(p, 1, Len(p) - 1)

\* path.Base
PathBase(p) == p[Len(p)]

\* strings.HasPrefix(p, q + "/") for paths without a slash at the end
HasPathPrefix(p, q) == Len(p) > Len(q) /\ SubSeq(p, 1, Len(q)) = q

\* the number and, on mangastream, the id of a chapter in a path
ChapterSeg(ch) == DigitChars[ch + 1]
ChapterIdSeg(ch) == DigitChars[ch + 5]

\* the path of the chapter as the comments of Handle give it
ChapterPathOf(site, ch, first) ==
    CASE site = "mangareader" -> <<"m", ChapterSeg(ch)>>
      [] site = "mangaeden" -> <<"en", "en-manga", "m", ChapterSeg(ch)>>
      [] site = "mangastream" -> <<first, "m", ChapterSeg(ch), ChapterIdSeg(ch)>>

\* the path of the manga
MangaPathOf(site) ==
    CASE site = "mangareader" -> <<"m">>
      [] site = "mangaeden" -> <<"en", "en-manga", "m">>
      [] site = "mangastream" -> <<"manga", "m">>

\* a URL a user gives: of the site, of the manga, of a chapter or of a page
\* of it, with or without a slash at the end
UserUrl(site, form, ch) ==
    CASE form = "root" -> <<"">>
      [] form = "manga" -> MangaPathOf(site)
      [] form = "chapter" -> ChapterPathOf(site, ch, "read")
      [] form = "chapter/" -> ChapterPathOf(site, ch, "read") \o <<"">>
      [] form = "page" -> ChapterPathOf(site, ch, "read") \o <<"3">>
      [] form = "page/" -> ChapterPathOf(site, ch, "read") \o <<"3", "">>

\* GetChapters: the href of a chapter in the listing.  mangareader links
\* to the chapter, mangastream to its first page, mangaeden to either
Href(ch) ==
    CASE hSite = "mangareader" -> ChapterPathOf(hSite, ch, "r")
      [] hSite = "mangastream" -> ChapterPathOf(hSite, ch, "r") \o <<"1">>
      [] hSite = "mangaeden" ->
            IF hHrefForm = "chapter" THEN ChapterPathOf(hSite, ch, "r")
            ELSE ChapterPathOf(hSite, ch, "r") \o <<"1", "">>

\* Handle: the switch on strings.Count(cleanPath, "/"): the case of a page
\* url, of a chapter url and of a manga url of each crawler
PageCount(site) == IF site = "mangareader" THEN 3 ELSE 5
ChapterCount(site) == IF site = "mangareader" THEN 2 ELSE 4
MangaCount(site) == IF site = "mangaeden" THEN 3 ELSE IF site = "mangareader" THEN 1 ELSE 2

\* Handle: chapterPath for a page url taken as it is, without path.Dir
Handle_chapterPathNoDir(u) == TrimRightSlash(u)

\* Handle: chapterPath, that is cleanPath, after path.Dir for a page url
Handle_chapterPath(u) ==
    IF CountSlash(TrimRightSlash(u)) = PageCount(hSite)
    THEN PathDir(TrimRightSlash(u)) ELSE TrimRightSlash(u)

\* the whitelist rule of each Handle on the resource of a chapter
whitelistRule_Block(r) ==
    LET cleanPath == TrimRightSlash(r)
    IN  CASE hSite = "mangareader" ->
                CountSlash(cleanPath) = 2 /\ cleanPath # hChapterPath
          [] hSite = "mangaeden" ->
                cleanPath # hChapterPath /\ ~HasPathPrefix(cleanPath, hChapterPath)
          [] hSite = "mangastream" ->
                IF cleanPath[1] \in {"r", "read"}
                THEN PathBase(hChapterPath) # PathBase(PathDir(cleanPath))
                ELSE FALSE

\* Handle up to the call of handleManga, or to log.Fatalln
Handle ==
    /\ hPc = "start"
    /\ LET cleanPath == TrimRightSlash(hUrl)
           n == CountSlash(cleanPath)
           chapterPath == Handle_chapterPath(hUrl)
       IN  IF n \in {PageCount(hSite), ChapterCount(hSite)}
           THEN /\ hChapterPath' = chapterPath
                /\ hMangaURL' = IF hSite = "mangastream"
                                THEN <<"manga", PathBase(PathDir(PathDir(chapterPath)))>>
                                ELSE PathDir(chapterPath)
                /\ hWhitelist' = TRUE
                /\ hPc' = "handleManga"
           ELSE IF n = MangaCount(hSite)
           THEN /\ hMangaURL' = hUrl
                /\ hPc' = "handleManga"
                /\ UNCHANGED <<hChapterPath, hWhitelist>>
           ELSE /\ hPc' = "fatal"
                /\ UNCHANGED <<hChapterPath, hWhitelist, hMangaURL>>
    /\ UNCHANGED <<hSite, hUrl, hTarget, hHrefForm, hSaverBlocks, hChPc, hGets>>
    /\ UNCHANGED handleFrame

\* handleManga: GetHTML(mangaURL), GetChapters, one goroutine per chapter
Handle_handleManga ==
    /\ hPc = "handleManga"
    /\ hGets' = hGets \cup {hMangaURL}
    /\ hChPc' = [ch \in ListedChapters |-> "block"]
    /\ hPc' = "wait"
    /\ UNCHANGED <<hSite, hUrl, hTarget, hHrefForm, hSaverBlocks, hWhitelist, hChapterPath,
                   hMangaURL>>
    /\ UNCHANGED handleFrame

\* handleChapter: "if m.rule.Block(chapter) { return }" with m.rule the
\* AndRule{whitelistRule, m.rule} of Handle, or the rule of the crawler
Handle_handleChapter_Block(ch) ==
    /\ hPc = "wait" /\ hChPc[ch] = "block"
    /\ hChPc' = [hChPc EXCEPT ![ch] =
                    IF (hWhitelist /\ whitelistRule_Block(Href(ch))) \/ ch \in hSaverBlocks
                    THEN "blocked" ELSE "fetch"]
    /\ UNCHANGED <<hSite, hUrl, hTarget, hHrefForm, hSaverBlocks, hPc, hWhitelist,
                   hChapterPath, hMangaURL, hGets>>
    /\ UNCHANGED handleFrame

\* handleChapter: m.client.GetHTML(chapter.url)
Handle_handleChapter_GetHTML(ch) ==
    /\ hPc = "wait" /\ hChPc[ch] = "fetch"
    /\ hGets' = hGets \cup {Href(ch)}
    /\ hChPc' = [hChPc EXCEPT ![ch] = "fetched"]
    /\ UNCHANGED <<hSite, hUrl, hTarget, hHrefForm, hSaverBlocks, hPc, hWhitelist,
                   hChapterPath, hMangaURL>>
    /\ UNCHANGED handleFrame

\* a crawler of one of the sites is given a URL of a manga, of one of its
\* chapters or of a page of it
HandleInit ==
    /\ NewFetcher(MaxConnections)
    /\ GetsIdle
    /\ CrawlIdle
    /\ NewProgressBar
    /\ LiveIdle
    /\ ClientIdle
    /\ BodyIdle
    /\ RuleIdle
    /\ GuessIdle
    /\ UpdateIdle
    /\ CopyIdle
    /\ GradientIdle
    /\ WriterIdle
    /\ PredictIdle
    /\ hSite \in Sites
    /\ hHrefForm \in {"chapter", "page"}
    /\ hSite # "mangaeden" => hHrefForm = "chapter"
    /\ hSaverBlocks \in SUBSET ListedChapters
    /\ \E form \in UrlForms, ch \in ListedChapters :
          /\ hTarget = IF form \in {"root", "manga"} THEN 0 ELSE ch
          /\ hUrl = UserUrl(hSite, form, ch)
    /\ hPc = "start"
    /\ hWhitelist = FALSE
    /\ hChapterPath = <<>>
    /\ hMangaURL = <<>>
    /\ hChPc = <<>>
    /\ hGets = {}

HandleNext ==
    \/ Handle
    \/ Handle_handleManga
    \/ \E ch \in DOMAIN hChPc : Handle_handleChapter_Block(ch)
    \/ \E ch \in DOMAIN hChPc : Handle_handleChapter_GetHTML(ch)

HandleSpec == HandleInit /\ [][HandleNext]_vars

(***************************************************************************)
(* Claims about Handle (checked under HandleSpec)                          *)
(***************************************************************************)
\* C35: when Handle is given the URL of a chapter or of a page, it puts
\* the whitelist rule in front of the rule of the crawler and crawls the
\* manga of the chapter; no other chapter of the listing gets past Block
\* and none of their URLs is given to GetHTML; and the chapter asked for
\* is blocked only when the rule of the crawler blocks it
C35_OnlyRequestedChapter ==
    (hTarget # 0 /\ hPc \notin {"idle", "start"}) =>
        /\ hPc # "fatal" /\ hWhitelist
        /\ hMangaURL = MangaPathOf(hSite)
        /\ \A ch \in DOMAIN hChPc :
              /\ ch # hTarget => hChPc[ch] \in {"block", "blocked"} /\ Href(ch) \notin hGets
              /\ (ch = hTarget /\ hChPc[ch] = "blocked") => ch \in hSaverBlocks

\* C35 witness: Handle was given the URL of a page with a slash at the end;
\* the chapter of the page has been fetched and every other chapter of the
\* listing is blocked, by the whitelist alone
C35_Witness ==
    /\ hTarget # 0 /\ hPc = "wait" /\ hSaverBlocks = {}
    /\ hUrl[Len(hUrl)] = "" /\ CountSlash(TrimRightSlash(hUrl)) = PageCount(hSite)
    /\ hChPc[hTarget] = "fetched"
    /\ \A ch \in ListedChapters \ {hTarget} : hChPc[ch] = "blocked"

(***************************************************************************)
(* AndRule.Block and LastChapterRule.Block (rules.go) on their own.  The   *)
(* members of an AndRule are the saver, the LastChapterRule and a funcRule *)
(* as Handle builds it; what the saver and the funcRule answer for the     *)
(* Metadata is part of the input.                                          *)
(***************************************************************************)
RuleKinds == {"saver", "last", "func"}

RECURSIVE SeqsUpTo(_, _)
\* the sequences over S of length n or less
SeqsUpTo(S, n) ==
    IF n = 0 THEN {<<>>}
    ELSE LET shorter == SeqsUpTo(S, n - 1)
         IN  shorter \cup {Append(q, x) : q \in {q \in shorter : Len(q) = n - 1}, x \in S}

\* a rule that blocks the last chapter as well
LastChapterRule_BlockAll(m) == m.chapterIndex <= m.chapters

\* LastChapterRule.Block
LastChapterRule_Block(m) == m.chapterIndex < m.chapters

\* x.Block(m) for a member x of the AndRule
Member_Block(x, m) ==
    CASE x = "saver" -> m.finalized
      [] x = "last" -> LastChapterRule_Block(m)
      [] x = "func" -> ~m.requested

\* AndRule.Block: one turn of "for _, x := range r": "return true" if the
\* member blocks, else on to the next member
AndRule_Block_Range ==
    /\ rlRet = "running" /\ rlI < Len(rlRules)
    /\ IF Member_Block(rlRules[rlI + 1], rlMeta)
       THEN rlRet' = "true" /\ rlI' = rlI
       ELSE rlRet' = rlRet /\ rlI' = rlI + 1
    /\ UNCHANGED <<rlRules, rlMeta>>
    /\ UNCHANGED ruleFrame

\* AndRule.Block: the loop is over, "return false"
AndRule_Block_Return ==
    /\ rlRet = "running" /\ rlI = Len(rlRules)
    /\ rlRet' = "false"
    /\ UNCHANGED <<rlRules, rlMeta, rlI>>
    /\ UNCHANGED ruleFrame

\* an AndRule of up to MaxRules members is asked about the Metadata of a
\* chapter of a listing
RuleInit ==
    /\ NewFetcher(MaxConnections)
    /\ GetsIdle
    /\ CrawlIdle
    /\ NewProgressBar
    /\ LiveIdle
    /\ ClientIdle
    /\ BodyIdle
    /\ GuessIdle
    /\ UpdateIdle
    /\ CopyIdle
    /\ GradientIdle
    /\ WriterIdle
    /\ PredictIdle
    /\ HandleIdle
    /\ rlRules \in SeqsUpTo(RuleKinds, MaxRules)
    /\ \E n \in Chapters, i \in Chapters, f \in BOOLEAN, q \in BOOLEAN :
          /\ i <= n
          /\ rlMeta = [chapterIndex |-> i, chapters |-> n, finalized |-> f, requested |-> q]
    /\ rlI = 0
    /\ rlRet = "running"

RuleNext ==
    \/ AndRule_Block_Range
    \/ AndRule_Block_Return

RuleSpec == RuleInit /\ [][RuleNext]_vars

(***************************************************************************)
(* Claims about the rules (checked under RuleSpec)                         *)
(***************************************************************************)
\* the member answers true for the Metadata
Blocks(x) ==
    \/ x = "saver" /\ rlMeta.finalized
    \/ x = "last" /\ rlMeta.chapterIndex # rlMeta.chapters
    \/ x = "func" /\ ~rlMeta.requested

\* C36: AndRule.Block returns true exactly when one of its members blocks
\* the Metadata, so an AndRule without members returns false; the
\* LastChapterRule blocks exactly the chapters that are not the last of the
\* listing; and AndRule{saver, LastChapterRule} lets a chapter pass exactly
\* when it is the last one and is not finalized
C36_AndRuleBlocksIffAny ==
    rlRet \in {"true", "false"} =>
        /\ rlRet = "true" <=> \E i \in 1..Len(rlRules) : Blocks(rlRules[i])
        /\ rlRules = <<>> => rlRet = "false"
        /\ rlRules = <<"last">> =>
              (rlRet = "true" <=> rlMeta.chapterIndex < rlMeta.chapters)
        /\ rlRules = <<"saver", "last">> =>
              (rlRet = "false" <=>
                  (rlMeta.chapterIndex = rlMeta.chapters /\ ~rlMeta.finalized))

\* C36 witness: AndRule{saver, LastChapterRule} has let the last chapter
\* of a listing of two pass
C36_Witness ==
    /\ rlRules = <<"saver", "last">> /\ rlRet = "false"
    /\ rlMeta.chapters = 2 /\ rlMeta.chapterIndex = 2

(***************************************************************************)
(* Fetcher.Get together with its caller handleImage (commoncrawler.go),    *)
(* which reads the Body of the response after Get has returned.            *)
(***************************************************************************)
\* handleImage: Get returned a response, the Body is open and its Close
\* is deferred; Save hands out the sink and io.Copy starts to read the Body
Caller_handleImage_Save(c) ==
    /\ getPc[c] = "returned" /\ getRet[c].err = NilError
    /\ bodyPc[c] = "none"
    /\ bodyPc' = [bodyPc EXCEPT ![c] = "copying"]
    /\ UNCHANGED bodyFrame

\* handleImage: io.Copy comes back and handleImage returns; the deferred
\* r.Body.Close() runs
Caller_handleImage_Copy(c) ==
    /\ bodyPc[c] = "copying"
    /\ bodyPc' = [bodyPc EXCEPT ![c] = "closed"]
    /\ UNCHANGED bodyFrame

\* NewFetcher as main calls it (one rule for every host), no Get under way
TransferInit ==
    /\ \E k \in 1..MaxConnections : NewFetcher(k)
    /\ GetsIdle
    /\ CrawlIdle
    /\ NewProgressBar
    /\ UnitsIdle

TransferNext ==
    \/ \E i \in 1..Len(domainRules) : LimiterTick(i)
    \/ \E c \in Gets, h \in Hosts : GetEnter(c, h)
    \/ \E c \in Gets : GetAcquire(c)
    \/ \E c \in Gets : GetAwaitTick(c)
    \/ \E c \in Gets : GetDo(c)
    \/ \E c \in Gets, s \in StatusCodes : GetAnswered(c, s)
    \/ \E c \in Gets : GetFailed(c)
    \/ \E c \in Gets : Caller_handleImage_Save(c)
    \/ \E c \in Gets : Caller_handleImage_Copy(c)

TransferSpec == TransferInit /\ [][TransferNext]_vars

(***************************************************************************)
(* Claims about Get and the Body (checked under TransferSpec)              *)
(***************************************************************************)
\* the calls of Get under rule i that have sent into the semaphore and
\* have not returned
GetsInProgress(i) ==
    {c \in Gets : getRule[c] = i /\ getPc[c] \in {"rateLimiter", "do", "inflight"}}

\* the callers that are reading the Body of a response of rule i
Transfers(i) == {c \in Gets : getRule[c] = i /\ bodyPc[c] = "copying"}

\* C37: the elements in the semaphore of a rule are as many as the calls
\* of Get under that rule between their send into the semaphore and their
\* return; a caller that reads or has closed a Body holds no slot, since
\* its Get has returned and released
C37_SlotHeldUntilReturn ==
    \A i \in Rules :
        /\ semaphore[i] = Cardinality(GetsInProgress(i))
        /\ Holders(i) = GetsInProgress(i)
        /\ \A c \in Gets : bodyPc[c] # "none" =>
              /\ getPc[c] = "returned"
              /\ c \notin Holders(i)

\* C37 witness: more Bodies of one rule are being read than the rule has
\* slots, and none of its slots is held
C37_Witness ==
    \E i \in Rules :
        /\ Cardinality(Transfers(i)) > domainRules[i].maxConnections
        /\ semaphore[i] = 0

(***************************************************************************)
(* The progress bar with a second caller of ProgressBar.Stop, which does   *)
(* not wait for the downloads as main does                                 *)
(***************************************************************************)
\* a run that takes the stop request and goes on with its loop
run_StopClientAndGoOn ==
    /\ Running /\ runPc = "select" /\ clientPc = "stopCh"
    /\ clientPc' = "stopped"
    /\ UNCHANGED progressVars
    /\ UNCHANGED <<fetchVars, crawlVars, guessVars, updateVars, copyVars, gradientVars,
                   writerVars, predictVars, handleVars, ruleVars, bodyVars, liveVars>>

\* Stop is called while main is still in wg.Wait() or later
Client_Stop ==
    /\ Running /\ clientPc = "idle"
    /\ clientPc' = "stopCh"
    /\ UNCHANGED clientFrame

\* Stop: "self.stopCh <- empty{}" of that call, received by run's
\* "case <-self.stopCh: break loop"
run_StopClient ==
    /\ Running /\ runPc = "select" /\ clientPc = "stopCh"
    /\ runPc' = "close"
    /\ clientPc' = "stopped"
    /\ UNCHANGED <<nextPlace, tickBuf, stoppedClosed, cursor, restores, screen, taskPc,
                   taskInfo, stopPc>>
    /\ UNCHANGED <<fetchVars, crawlVars, guessVars, updateVars, copyVars, gradientVars,
                   writerVars, predictVars, handleVars, ruleVars, bodyVars, liveVars>>

\* Stop: "<-self.stopped" of that call returns once the channel is closed
Client_Stop_Return ==
    /\ Running /\ clientPc = "stopped" /\ stoppedClosed
    /\ clientPc' = "returned"
    /\ UNCHANGED clientFrame

StopNext ==
    \/ ProgressNext
    \/ Client_Stop
    \/ run_StopClient
    \/ Client_Stop_Return

StopSpec == ProgressInit /\ [][StopNext]_vars

(***************************************************************************)
(* Claims about the shutdown of the progress bar (checked under StopSpec)  *)
(***************************************************************************)
\* run has received from stopCh
StopAccepted ==
    \/ stopPc \in {"stopped", "returned", "exited"}
    \/ clientPc \in {"stopped", "returned"}

\* downloads inside StartTask or TickTask, at the receive or the send that
\* run has to match
Pending == {t \in Downloads : taskPc[t] \in {"startCh", "tickCh"}}

\* C38: once run has received from stopCh it takes nothing more: a
\* StartTask or TickTask that is waiting then, or is called later, stays
\* where it is, no place is handed out and nothing is printed, and a
\* further call of Stop stays at its send on stopCh; the deferred Stop of
\* main is called when no download is left inside StartTask, TickTask or
\* its copy
C38_NothingAcceptedAfterStop ==
    /\ [][StopAccepted =>
              /\ \A t \in Pending : taskPc'[t] = taskPc[t]
              /\ nextPlace' = nextPlace /\ screen' = screen
              /\ stopPc = "stopCh" => stopPc' = "stopCh"
              /\ clientPc = "stopCh" => clientPc' = "stopCh"]_vars
    /\ [](stopPc # "crawl" => \A t \in Downloads : taskPc[t] \in {"idle", "done"})

\* C38 witness: run has returned after a Stop that did not wait, while one
\* download is inside StartTask and another inside TickTask
C38_Witness ==
    /\ runPc = "returned" /\ clientPc = "returned"
    /\ \E t \in Downloads : taskPc[t] = "startCh"
    /\ \E t \in Downloads : taskPc[t] = "tickCh"

(***************************************************************************)
(* The crawl of CommonSimpleCrawler together with the semaphore and the    *)
(* limiter of Fetcher.Get and the hand-offs to ProgressBar.run, in a run   *)
(* where every request is answered with 200 and every file can be made.    *)
(* What the savers do on the disk is followed in CrawlSpec, what run       *)
(* prints in ProgressSpec.                                                 *)
(***************************************************************************)
MangaTask == <<0, 0>>
ChapterTasks == {<<ch, 0>> : ch \in Chapters}
LivePages == Chapters \X Pages
LiveTasks == {MangaTask} \cup ChapterTasks \cup LivePages

\* the goroutines a handler starts after its GetHTML and then waits for
Started(t) ==
    IF t = MangaTask THEN ChapterTasks
    ELSE IF t[2] = 0 THEN {<<t[1], p>> : p \in Pages}
    ELSE {}

\* the variables of the Fetcher and of the progress bar the crawl leaves alone
liveFetchRest == <<domainRules, ticksProduced, ticksConsumed, requestsIssued, ctxDone,
                   getPc, getHost, getRule, getAcquired, getReleased, getTick,
                   getIssued, getStatus, getRet>>
liveProgressRest == <<tickBuf, stoppedClosed, cursor, restores, screen, taskPc,
                      taskInfo, stopPc>>
liveUnitsRest == <<guessVars, updateVars, copyVars, gradientVars, writerVars,
                   predictVars, handleVars, ruleVars, bodyVars, clientVars>>

\* Get: "r.semaphore <- empty{}", then the release is deferred
Live_Get_Acquire(t) ==
    /\ lvGet[t] = "semaphore"
    /\ SemaphoreHasRoom(1)
    /\ semaphore' = [semaphore EXCEPT ![1] = @ + 1]
    /\ lvGet' = [lvGet EXCEPT ![t] = "rateLimiter"]
    /\ UNCHANGED <<lvPc, lvSofar, rateLimiter, liveFetchRest, crawlVars, progressVars,
                   liveUnitsRest>>

\* Get: "<-r.rateLimiter"
Live_Get_AwaitTick(t) ==
    /\ lvGet[t] = "rateLimiter"
    /\ rateLimiter[1] > 0
    /\ rateLimiter' = [rateLimiter EXCEPT ![1] = @ - 1]
    /\ lvGet' = [lvGet EXCEPT ![t] = "do"]
    /\ UNCHANGED <<lvPc, lvSofar, semaphore, liveFetchRest, crawlVars, progressVars,
                   liveUnitsRest>>

\* where the handler of task t is after its Get has returned, and where
\* the goroutines are that it starts then
AfterGet(t) ==
    [u \in LiveTasks |->
        IF u = t
        THEN IF t[2] = 0 THEN "Wait"
             ELSE IF lvPc[t] = "GetHTML" THEN "Get" ELSE "StartTask"
        ELSE IF u \in Started(t)
             THEN IF u[2] = 0 THEN "Block"
                  ELSE IF u[2] = 1 THEN "Get" ELSE "GetHTML"
             ELSE lvPc[u]]

\* the calls of Get that begin when the Get of task t has returned
GetsAfterGet(t) ==
    [u \in LiveTasks |->
        IF u = t
        THEN IF t[2] # 0 /\ lvPc[t] = "GetHTML" THEN "semaphore" ELSE "none"
        ELSE IF u \in Started(t) /\ u[2] # 0 THEN "semaphore"
             ELSE lvGet[u]]

\* a Get whose slot is given back only when the handler that called it is over
Live_Get_ReturnKeepsSlot(t) ==
    /\ lvGet[t] = "do"
    /\ lvPc' = AfterGet(t)
    /\ lvGet' = GetsAfterGet(t)
    /\ UNCHANGED <<lvSofar, semaphore, rateLimiter, liveFetchRest, crawlVars,
                   progressVars, liveUnitsRest>>

\* Get: client.Get comes back with status 200 and Get returns, the deferred
\* "<-r.semaphore" runs.  handleManga and handleChapter start a goroutine
\* for every chapter / page and go to wg.Wait(); handlePage goes on to
\* handleImage; handleImage goes on to Save, which calls StartTask
Live_Get_Return(t) ==
    /\ lvGet[t] = "do"
    /\ semaphore' = [semaphore EXCEPT ![1] = @ - 1]
    /\ lvPc' = AfterGet(t)
    /\ lvGet' = GetsAfterGet(t)
    /\ UNCHANGED <<lvSofar, rateLimiter, liveFetchRest, crawlVars, progressVars,
                   liveUnitsRest>>

\* handleChapter: "if m.rule.Block(chapter) { return }", else GetHTML
Live_handleChapter_Block(ch, blocks) ==
    /\ lvPc[<<ch, 0>>] = "Block"
    /\ lvPc' = [lvPc EXCEPT ![<<ch, 0>>] = IF blocks THEN "returned" ELSE "GetHTML"]
    /\ lvGet' = [lvGet EXCEPT ![<<ch, 0>>] = IF blocks THEN "none" ELSE "semaphore"]
    /\ UNCHANGED <<lvSofar, fetchVars, crawlVars, progressVars, liveUnitsRest>>

\* run: "case self.startCh <- nextPlace: nextPlace++", received by the
\* StartTask of page t, which goes on to TickTask(newTask, 0)
Live_run_Start(t) ==
    /\ runPc = "select" /\ lvPc[t] = "StartTask"
    /\ nextPlace' = nextPlace + 1
    /\ lvPc' = [lvPc EXCEPT ![t] = "TickTask"]
    /\ UNCHANGED <<lvGet, lvSofar, runPc, liveProgressRest, fetchVars, crawlVars,
                   liveUnitsRest>>

\* run: "case task := <-self.tickCh" with its Printf, sent by the TickTask
\* of page t; run is back at its select
Live_run_Tick(t) ==
    /\ runPc = "select" /\ lvPc[t] = "TickTask"
    /\ lvPc' = [lvPc EXCEPT ![t] = "Copy"]
    /\ UNCHANGED <<lvGet, lvSofar, fetchVars, crawlVars, progressVars, liveUnitsRest>>

\* io.Copy: ProgressWriter.Write of the next chunk, whose callback calls TickTask
Live_ProgressWriter_Write(t) ==
    /\ lvPc[t] = "Copy" /\ lvSofar[t] < BodyLen
    /\ lvSofar' = [lvSofar EXCEPT ![t] = @ + 1]
    /\ lvPc' = [lvPc EXCEPT ![t] = "TickTask"]
    /\ UNCHANGED <<lvGet, fetchVars, crawlVars, progressVars, liveUnitsRest>>

\* io.Copy is at the end of the Body: handleImage returns (out.Close and
\* r.Body.Close are deferred), and handlePage after it with its OnPageEnd
Live_handleImage_Return(t) ==
    /\ lvPc[t] = "Copy" /\ lvSofar[t] = BodyLen
    /\ lvPc' = [lvPc EXCEPT ![t] = "returned"]
    /\ UNCHANGED <<lvGet, lvSofar, fetchVars, crawlVars, progressVars, liveUnitsRest>>

\* handleManga, handleChapter: wg.Wait() returns when every goroutine
\* started has called wg.Done(); handleChapter notifies the observer, and
\* the handler returns
Live_Wait(t) ==
    /\ lvPc[t] = "Wait"
    /\ \A u \in Started(t) : lvPc[u] = "returned"
    /\ lvPc' = [lvPc EXCEPT ![t] = "returned"]
    /\ UNCHANGED <<lvGet, lvSofar, fetchVars, crawlVars, progressVars, liveUnitsRest>>

\* main has made the Fetcher and the progress bar, Handle has called
\* handleManga, which is about to call GetHTML
LiveInit ==
    /\ \E k \in 1..MaxConnections : NewFetcher(k)
    /\ GetsIdle
    /\ CrawlIdle
    /\ NewProgressBar
    /\ GuessIdle
    /\ UpdateIdle
    /\ CopyIdle
    /\ GradientIdle
    /\ WriterIdle
    /\ PredictIdle
    /\ HandleIdle
    /\ RuleIdle
    /\ BodyIdle
    /\ ClientIdle
    /\ lvPc = [t \in LiveTasks |-> IF t = MangaTask THEN "GetHTML" ELSE "idle"]
    /\ lvGet = [t \in LiveTasks |-> IF t = MangaTask THEN "semaphore" ELSE "none"]
    /\ lvSofar = [t \in LivePages |-> 0]

\* the steps of the goroutines of the crawl
LiveTaskNext ==
    \/ \E t \in LiveTasks : Live_Get_Acquire(t)
    \/ \E t \in LiveTasks : Live_Get_AwaitTick(t)
    \/ \E t \in LiveTasks : Live_Get_Return(t)
    \/ \E ch \in Chapters, blocks \in BOOLEAN : Live_handleChapter_Block(ch, blocks)
    \/ \E t \in LivePages : Live_ProgressWriter_Write(t)
    \/ \E t \in LivePages : Live_handleImage_Return(t)
    \/ \E t \in LiveTasks : Live_Wait(t)

\* the steps of ProgressBar.run
LiveRunNext ==
    \/ run_CursorOff
    \/ \E t \in LivePages : Live_run_Start(t)
    \/ \E t \in LivePages : Live_run_Tick(t)

LiveNext ==
    \/ LimiterTick(1)
    \/ LiveRunNext
    \/ LiveTaskNext

LiveSpec == LiveInit /\ [][LiveNext]_vars

\* the timer of the limiter goes on, the goroutine run is scheduled when it
\* can take a step, and so is some goroutine of the crawl that can
FairLiveSpec ==
    /\ LiveSpec
    /\ WF_vars(LimiterTick(1))
    /\ WF_vars(LiveRunNext)
    /\ WF_vars(LiveTaskNext)

(***************************************************************************)
(* Claims about the termination of the crawl (checked under FairLiveSpec)  *)
(***************************************************************************)
\* handleManga and every handleChapter have returned, and so has every
\* page task that was started (a chapter the rule blocks starts none)
AllReturned ==
    /\ \A t \in {MangaTask} \cup ChapterTasks : lvPc[t] = "returned"
    /\ \A t \in LivePages : lvPc[t] \in {"idle", "returned"}

\* C39: with every request answered, at least one slot, a limiter that
\* ticks and run at work, every chapter and page task terminates and
\* handleManga returns; when handleManga has returned every task it started
\* is over and no slot of the semaphore is held
C39_CrawlTerminates ==
    /\ <>AllReturned
    /\ [](lvPc[MangaTask] = "returned" => AllReturned /\ semaphore[1] = 0)

\* C39 witness: handleManga has returned after every page of every
\* chapter was downloaded through a single slot
C39_Witness ==
    /\ AllReturned
    /\ nextPlace = NumChapters * NumPages + 1
    /\ domainRules[1].maxConnections = 1
====
